---------------------------- MODULE Spec2Model ----------------------------
(***************************************************************************)
(* Model of the Vulkan resource-binding layer of nvrhi                     *)
(* (src/src/vulkan/vulkan-resource-bindings.cpp): binding layouts, binding *)
(* sets, descriptor tables, pipeline-layout assembly and the descriptor    *)
(* set binding protocol of the command list.                               *)
(***************************************************************************)
EXTENDS Integers, Sequences, FiniteSets, TLC

VARIABLES
    layout,                \* the BindingLayout returned by the last create*Layout call
    layoutRefs,                  \* the references to that BindingLayout and the objects holding them
    errors,                \* m_Context.error messages reported by the last operation
    table,                 \* the DescriptorTable under test
    viewCache,             \* Buffer::viewCache of every buffer: buffer -> (hash -> view)
    viewsCreated,          \* createBufferView calls issued so far, per (buffer, triple)
    typedBound,            \* typed-buffer triples for which a descriptor was resolved
    lastCall,              \* operation, return value and native calls of the last table/set call
    pipeline,              \* outputs of the last createPipelineLayout call
    volatileBufferStates,  \* CommandList::m_VolatileBufferStates
    cmdBuf,                \* m_CurrentCmdBuf: bindDescriptorSets calls and referencedResources
    bindInput,             \* arguments of the bindBindingSets call and the states it read
    process                \* the build (NDEBUG or not) and whether an assertion aborted it

vars == <<layout, layoutRefs, errors, table, viewCache, viewsCreated, typedBound,
          lastCall, pipeline, volatileBufferStates, cmdBuf, bindInput, process>>

(***************************************************************************)
(* Bounds of the model.                                                    *)
(***************************************************************************)
MaxItems == 2          \* longest BindingLayoutDesc::bindings list
MaxSpaces == 2         \* longest BindlessLayoutDesc::registerSpaces list
MaxBindings == 3       \* longest BindingSetVector handed to bindBindingSets
MaxSets == 3           \* most descriptor-set positions of a pipeline layout
MaxVersion == 2        \* highest version of a volatile constant buffer
MaxLayouts == 3        \* most binding layouts handed to createPipelineLayout
MaxRegisterSpace == 2  \* highest registerSpace of a binding layout
MaxSetItems == 2       \* longest BindingSetDesc::bindings list

(***************************************************************************)
(* Enumerations.                                                           *)
(***************************************************************************)
ResourceTypes ==
    {"None", "Texture_SRV", "Texture_UAV", "TypedBuffer_SRV", "TypedBuffer_UAV",
     "StructuredBuffer_SRV", "StructuredBuffer_UAV", "RawBuffer_SRV", "RawBuffer_UAV",
     "ConstantBuffer", "VolatileConstantBuffer", "Sampler", "RayTracingAccelStruct",
     "PushConstants"}

LayoutTypes == {"Immutable", "MutableSrvUavCbv", "MutableCounters", "MutableSampler"}

\* vk::Result values of the native creation calls
VkResults == {"eSuccess", "eErrorOutOfHostMemory"}

\* native handles are pairs <<kind, id>>
VkNull == <<"VK_NULL_HANDLE", 0>>
Handle(kind, id) == <<kind, id>>

\* the types a layout item may carry (None is InvalidEnum in every switch)
LayoutItemTypes == ResourceTypes \ {"None"}
SlotValues == {0, 2}
SizeValues == {0, 3}
CapacityValues == {0, 4}
Visibilities == {"Compute", "All"}

\* VulkanBindingOffsets: the default policy of the API and a custom one
DefaultBindingOffsets ==
    [shaderResource |-> 0, sampler |-> 128, constantBuffer |-> 256, unorderedAccess |-> 384]

CustomBindingOffsets ==
    [shaderResource |-> 10, sampler |-> 20, constantBuffer |-> 30, unorderedAccess |-> 40]

RECURSIVE SeqsUpTo(_, _)
\* all sequences over S of length at most n
SeqsUpTo(S, n) ==
    IF n = 0 THEN {<<>>}
    ELSE LET shorter == SeqsUpTo(S, n - 1)
         IN  shorter \cup {Append(s, x) : s \in {t \in shorter : Len(t) = n - 1}, x \in S}

\* an item of size 0 is taken at slot 0 only
BindingLayoutItems ==
    {item \in [slot : SlotValues, type : LayoutItemTypes, size : SizeValues] :
        item.size = 0 => item.slot = 0}

BindingLayoutDescsWith(visibility, bindingOffsets) ==
    [visibility : {visibility},
     registerSpace : {0},
     registerSpaceIsDescriptorSet : {FALSE},
     bindings : SeqsUpTo(BindingLayoutItems, MaxItems),
     bindingOffsets : {bindingOffsets}]

\* compute layouts under the default policy, all-stage layouts under the custom one
BindingLayoutDescs ==
    BindingLayoutDescsWith("Compute", DefaultBindingOffsets)
    \cup BindingLayoutDescsWith("All", CustomBindingOffsets)

\* register spaces of a bindless description: only the type of an item is read
RegisterSpaceItems == [slot : {0}, type : LayoutItemTypes \ {"PushConstants"}, size : {1}]

BindlessLayoutDescs ==
    [visibility : Visibilities,
     layoutType : LayoutTypes,
     registerSpaces : SeqsUpTo(RegisterSpaceItems, MaxSpaces),
     maxCapacity : CapacityValues]

\* a default-constructed BindingLayoutDesc / BindlessLayoutDesc member
DefaultDesc ==
    [visibility |-> "None", registerSpace |-> 0, registerSpaceIsDescriptorSet |-> FALSE,
     bindings |-> <<>>,
     bindingOffsets |-> DefaultBindingOffsets]

DefaultBindlessDesc ==
    [visibility |-> "None", layoutType |-> "Immutable", registerSpaces |-> <<>>,
     maxCapacity |-> 0]

(***************************************************************************)
(* Fixed-width integers.  A uint64_t is four 16-bit limbs, least           *)
(* significant first; a uint32_t is its two low limbs.                     *)
(***************************************************************************)
LimbBase == 2^16

\* the uint64_t of a natural number below 2^31
U64(n) == <<n % LimbBase, n \div LimbBase, 0, 0>>

\* a + b modulo 2^64
AddU64(a, b) ==
    LET s1 == a[1] + b[1]
        s2 == a[2] + b[2] + (s1 \div LimbBase)
        s3 == a[3] + b[3] + (s2 \div LimbBase)
        s4 == a[4] + b[4] + (s3 \div LimbBase)
    IN  <<s1 % LimbBase, s2 % LimbBase, s3 % LimbBase, s4 % LimbBase>>

\* a - b modulo 2^64
SubU64(a, b) ==
    LET d1 == a[1] - b[1]
        d2 == a[2] - b[2] - (IF d1 < 0 THEN 1 ELSE 0)
        d3 == a[3] - b[3] - (IF d2 < 0 THEN 1 ELSE 0)
        d4 == a[4] - b[4] - (IF d3 < 0 THEN 1 ELSE 0)
    IN  <<d1 % LimbBase, d2 % LimbBase, d3 % LimbBase, d4 % LimbBase>>

LessU64(a, b) ==
    \E i \in 1..4 : a[i] < b[i] /\ \A j \in (i + 1)..4 : a[j] = b[j]

MinU64(a, b) == IF LessU64(b, a) THEN b ELSE a

\* n * b modulo 2^64, for a multiplier n below 2^15
MulU64(n, b) ==
    LET p1 == n * b[1]
        p2 == n * b[2] + (p1 \div LimbBase)
        p3 == n * b[3] + (p2 \div LimbBase)
        p4 == n * b[4] + (p3 \div LimbBase)
    IN  <<p1 % LimbBase, p2 % LimbBase, p3 % LimbBase, p4 % LimbBase>>

\* a << 6 and a >> 2 on 64 bits
Shl6U64(a) ==
    <<(a[1] * 64) % LimbBase,
      ((a[2] * 64) % LimbBase) + (a[1] \div 1024),
      ((a[3] * 64) % LimbBase) + (a[2] \div 1024),
      ((a[4] * 64) % LimbBase) + (a[3] \div 1024)>>

Shr2U64(a) ==
    <<(a[1] \div 4) + (a[2] % 4) * 16384,
      (a[2] \div 4) + (a[3] % 4) * 16384,
      (a[3] \div 4) + (a[4] % 4) * 16384,
      a[4] \div 4>>

\* exclusive or of two bits, of two 4-bit digits and of two limbs
XorBit(x, y) == (x + y) % 2

XorNibble ==
    [x \in 0..15 |-> [y \in 0..15 |->
        XorBit(x, y) + 2 * XorBit(x \div 2, y \div 2) + 4 * XorBit(x \div 4, y \div 4)
        + 8 * XorBit(x \div 8, y \div 8)]]

XorBits(x, y) ==
    XorNibble[x % 16][y % 16]
    + 16 * XorNibble[(x \div 16) % 16][(y \div 16) % 16]
    + 256 * XorNibble[(x \div 256) % 16][(y \div 256) % 16]
    + 4096 * XorNibble[x \div 4096][y \div 4096]

XorU64(a, b) ==
    <<XorBits(a[1], b[1]), XorBits(a[2], b[2]), XorBits(a[3], b[3]), XorBits(a[4], b[4])>>

\* uint32_t(x): the low 32 bits
TruncU32(a) == <<a[1], a[2], 0, 0>>

\* std::numeric_limits<uint32_t>::max()
UInt32Max == <<LimbBase - 1, LimbBase - 1, 0, 0>>

(***************************************************************************)
(* Conversions of vulkan-constants.cpp.                                    *)
(***************************************************************************)
convertResourceType(type) ==
    CASE type = "Texture_SRV" -> "eSampledImage"
      [] type = "Texture_UAV" -> "eStorageImage"
      [] type = "TypedBuffer_SRV" -> "eUniformTexelBuffer"
      [] type = "TypedBuffer_UAV" -> "eStorageTexelBuffer"
      [] type \in {"StructuredBuffer_SRV", "StructuredBuffer_UAV",
                   "RawBuffer_SRV", "RawBuffer_UAV"} -> "eStorageBuffer"
      [] type = "ConstantBuffer" -> "eUniformBuffer"
      [] type = "VolatileConstantBuffer" -> "eUniformBufferDynamic"
      [] type = "Sampler" -> "eSampler"
      [] type = "RayTracingAccelStruct" -> "eAccelerationStructureKHR"
      [] OTHER -> "eInvalid"

convertShaderTypeToShaderStageFlagBits(visibility) ==
    CASE visibility = "Compute" -> "eCompute"
      [] visibility = "Pixel" -> "eFragment"
      [] visibility = "All" -> "eAll"
      [] OTHER -> "eNone"

(***************************************************************************)
(* getRegisterOffsetForResourceType                                        *)
(***************************************************************************)
\* a faulty variant: unordered-access types share the shader-resource base
getRegisterOffset_SharedBase(bindingOffsets, type) ==
    CASE type \in {"Texture_SRV", "TypedBuffer_SRV", "StructuredBuffer_SRV",
                   "RawBuffer_SRV", "RayTracingAccelStruct", "Texture_UAV", "TypedBuffer_UAV",
                   "StructuredBuffer_UAV", "RawBuffer_UAV"} -> bindingOffsets.shaderResource
      [] type \in {"ConstantBuffer", "VolatileConstantBuffer", "PushConstants"} ->
             bindingOffsets.constantBuffer
      [] type = "Sampler" -> bindingOffsets.sampler
      [] OTHER -> 0

getRegisterOffsetForResourceType(bindingOffsets, type) ==
    CASE type \in {"Texture_SRV", "TypedBuffer_SRV", "StructuredBuffer_SRV",
                   "RawBuffer_SRV", "RayTracingAccelStruct"} -> bindingOffsets.shaderResource
      [] type \in {"Texture_UAV", "TypedBuffer_UAV", "StructuredBuffer_UAV",
                   "RawBuffer_UAV"} -> bindingOffsets.unorderedAccess
      [] type \in {"ConstantBuffer", "VolatileConstantBuffer", "PushConstants"} ->
             bindingOffsets.constantBuffer
      [] type = "Sampler" -> bindingOffsets.sampler
      [] OTHER -> 0

(***************************************************************************)
(* BindingLayout::BindingLayout(BindingLayoutDesc)                         *)
(***************************************************************************)
RECURSIVE FixedLayoutBindings(_, _, _)
\* the loop over desc.bindings, from item i on, appending to acc
FixedLayoutBindings(desc, i, acc) ==
    IF i > Len(desc.bindings) THEN acc
    ELSE LET binding == desc.bindings[i]
         IN  IF binding.type = "PushConstants"
             THEN FixedLayoutBindings(desc, i + 1, acc)
             ELSE FixedLayoutBindings(desc, i + 1, Append(acc,
                    [binding |-> getRegisterOffsetForResourceType(desc.bindingOffsets, binding.type)
                                    + binding.slot,
                     descriptorCount |-> binding.size,
                     descriptorType |-> convertResourceType(binding.type),
                     stageFlags |-> convertShaderTypeToShaderStageFlagBits(desc.visibility)]))

BindingLayoutFromDesc(desc) ==
    [isBindless |-> FALSE,
     desc |-> desc,
     bindlessDesc |-> DefaultBindlessDesc,
     vulkanLayoutBindings |-> FixedLayoutBindings(desc, 1, <<>>),
     descriptorSetLayout |-> VkNull,
     descriptorPoolSizeInfo |-> <<>>,
     bakeResult |-> "unbaked"]

(***************************************************************************)
(* BindingLayout::BindingLayout(BindlessLayoutDesc)                        *)
(***************************************************************************)
RECURSIVE ImmutableLayoutBindings_SamePoint(_, _, _, _)
\* a faulty variant: bindingPoint is never incremented
ImmutableLayoutBindings_SamePoint(bdesc, i, bindingPoint, acc) ==
    IF i > Len(bdesc.registerSpaces) THEN acc
    ELSE ImmutableLayoutBindings_SamePoint(bdesc, i + 1, bindingPoint, Append(acc,
            [binding |-> bindingPoint,
             descriptorCount |-> bdesc.maxCapacity,
             descriptorType |-> convertResourceType(bdesc.registerSpaces[i].type),
             stageFlags |-> convertShaderTypeToShaderStageFlagBits(bdesc.visibility)]))

RECURSIVE ImmutableLayoutBindings(_, _, _, _)
\* the loop over bindlessDesc.registerSpaces; bindingPoint is incremented per space
ImmutableLayoutBindings(bdesc, i, bindingPoint, acc) ==
    IF i > Len(bdesc.registerSpaces) THEN acc
    ELSE ImmutableLayoutBindings(bdesc, i + 1, bindingPoint + 1, Append(acc,
            [binding |-> bindingPoint,
             descriptorCount |-> bdesc.maxCapacity,
             descriptorType |-> convertResourceType(bdesc.registerSpaces[i].type),
             stageFlags |-> convertShaderTypeToShaderStageFlagBits(bdesc.visibility)]))

RECURSIVE ImmutableLayoutErrors(_, _, _)
ImmutableLayoutErrors(bdesc, i, acc) ==
    IF i > Len(bdesc.registerSpaces) THEN acc
    ELSE ImmutableLayoutErrors(bdesc, i + 1,
            IF bdesc.registerSpaces[i].type = "VolatileConstantBuffer"
            THEN Append(acc, "VolatileInBindless") ELSE acc)

\* a faulty variant: a mutable layout also gets one entry per register space
BindlessLayoutBindings_PerSpace(bdesc) ==
    IF bdesc.layoutType # "Immutable"
    THEN << [binding |-> 0,
             descriptorCount |-> bdesc.maxCapacity,
             descriptorType |-> "eMutableEXT",
             stageFlags |-> convertShaderTypeToShaderStageFlagBits(bdesc.visibility)] >>
         \o ImmutableLayoutBindings(bdesc, 1, 1, <<>>)
    ELSE ImmutableLayoutBindings(bdesc, 1, 0, <<>>)

BindlessLayoutBindings(bdesc) ==
    IF bdesc.layoutType # "Immutable"
    THEN << [binding |-> 0,
             descriptorCount |-> bdesc.maxCapacity,
             descriptorType |-> "eMutableEXT",
             stageFlags |-> convertShaderTypeToShaderStageFlagBits(bdesc.visibility)] >>
    ELSE ImmutableLayoutBindings(bdesc, 1, 0, <<>>)

\* a variant that asks for the extension whatever the layout type
BindlessLayoutErrors_AnyLayoutType(bdesc, mutableSupported) ==
    (IF ~mutableSupported THEN <<"MutableNotSupported">> ELSE <<>>)
    \o (IF bdesc.layoutType # "Immutable"
        THEN (IF Len(bdesc.registerSpaces) > 0 THEN <<"MutableWithRegisterSpaces">> ELSE <<>>)
        ELSE ImmutableLayoutErrors(bdesc, 1, <<>>))

\* the m_Context.error calls of the constructor, in order
BindlessLayoutErrors(bdesc, mutableSupported) ==
    IF bdesc.layoutType # "Immutable"
    THEN (IF ~mutableSupported THEN <<"MutableNotSupported">> ELSE <<>>)
         \o (IF Len(bdesc.registerSpaces) > 0 THEN <<"MutableWithRegisterSpaces">> ELSE <<>>)
    ELSE ImmutableLayoutErrors(bdesc, 1, <<>>)

BindingLayoutFromBindlessDesc(bdesc) ==
    [isBindless |-> TRUE,
     desc |-> [DefaultDesc EXCEPT !.visibility = bdesc.visibility],
     bindlessDesc |-> bdesc,
     vulkanLayoutBindings |-> BindlessLayoutBindings(bdesc),
     descriptorSetLayout |-> VkNull,
     descriptorPoolSizeInfo |-> <<>>,
     bakeResult |-> "unbaked"]

(***************************************************************************)
(* BindingLayout::bake                                                     *)
(***************************************************************************)
\* the structure chained to descriptorSetLayoutInfo.pNext
bakePNext(l) ==
    IF l.isBindless
    THEN IF l.bindlessDesc.layoutType # "Immutable"
         THEN CASE l.bindlessDesc.layoutType = "MutableCounters" -> "counterTypesList"
                [] l.bindlessDesc.layoutType = "MutableSampler" -> "samplerTypesList"
                [] OTHER -> "cbvSrvUavTypesList"
         ELSE "extendedInfo"
    ELSE "none"

RECURSIVE poolSizeMap_Overwrite(_, _, _)
\* a faulty variant: a later entry of a type replaces the count instead of adding
poolSizeMap_Overwrite(bindings, i, map) ==
    IF i > Len(bindings) THEN map
    ELSE LET t == bindings[i].descriptorType
             m0 == IF t \notin DOMAIN map THEN map @@ (t :> 0) ELSE map
         IN  poolSizeMap_Overwrite(bindings, i + 1,
                                   [m0 EXCEPT ![t] = bindings[i].descriptorCount])

RECURSIVE poolSizeMap(_, _, _)
\* the first loop of bake: descriptor counts summed per descriptor type
poolSizeMap(bindings, i, map) ==
    IF i > Len(bindings) THEN map
    ELSE LET t == bindings[i].descriptorType
             m0 == IF t \notin DOMAIN map THEN map @@ (t :> 0) ELSE map
         IN  poolSizeMap(bindings, i + 1,
                         [m0 EXCEPT ![t] = m0[t] + bindings[i].descriptorCount])

EmptyMap == [x \in {} |-> 0]

RECURSIVE poolSizeInfo(_, _, _, _)
\* the second loop of bake, visiting the keys of the map in iteration order `order`
poolSizeInfo(map, order, i, acc) ==
    IF i > Len(order) THEN acc
    ELSE poolSizeInfo(map, order, i + 1,
            IF map[order[i]] > 0
            THEN Append(acc, [type |-> order[i], descriptorCount |-> map[order[i]]])
            ELSE acc)

\* the iteration orders an unordered_map with key set S may have
IterationOrders(S) ==
    {s \in [1..Cardinality(S) -> S] : \A i, j \in 1..Cardinality(S) : s[i] = s[j] => i = j}

\* res is the result of createDescriptorSetLayout and handle the object it creates,
\* order the iteration order of poolSizeMap
bake(l, res, order, handle) ==
    IF res # "eSuccess"
    THEN [l EXCEPT !.bakeResult = res]
    ELSE [l EXCEPT !.descriptorSetLayout = handle,
                   !.descriptorPoolSizeInfo =
                       poolSizeInfo(poolSizeMap(l.vulkanLayoutBindings, 1, EmptyMap), order, 1, <<>>),
                   !.bakeResult = "eSuccess"]

(***************************************************************************)
(* Idle values of the state.                                               *)
(***************************************************************************)
NoLayout ==
    [isBindless |-> FALSE, desc |-> DefaultDesc, bindlessDesc |-> DefaultBindlessDesc,
     vulkanLayoutBindings |-> <<>>, descriptorSetLayout |-> VkNull,
     descriptorPoolSizeInfo |-> <<>>, bakeResult |-> "none"]

(***************************************************************************)
(* Device::createBindingLayout, Device::createBindlessLayout               *)
(***************************************************************************)
\* no layout object, nobody refers to it
NoRefs ==
    [layoutHandles |-> 0, layoutDestroyed |-> FALSE, nativeDestroyed |-> FALSE, holders |-> <<>>]

\* the reference count of the layout: the handles of the application and the
\* strong references of the objects created against it
RefCount(r) ==
    r.layoutHandles + Cardinality({k \in 1..Len(r.holders) : r.holders[k].strong})

\* a variant in which the object keeps a plain pointer to its layout
holdLayout_PlainPointer(r, tracked, kind, handles, resources) ==
    IF tracked
    THEN [r EXCEPT !.holders = Append(@, [kind |-> kind, handles |-> handles, strong |-> FALSE,
                                          resources |-> resources])]
    ELSE r

\* ret->layout = layout: the new object of the given kind refers to the layout
\* (when it is the layout followed in layoutRefs); handles is 1 when the object is
\* returned to the caller and 0 when the function fails after the assignment
\* and returns nullptr without deleting ret; resources is ret->resources
holdLayout(r, tracked, kind, handles, resources) ==
    IF tracked
    THEN [r EXCEPT !.holders = Append(@, [kind |-> kind, handles |-> handles, strong |-> TRUE,
                                          resources |-> resources])]
    ELSE r

\* RefCountPtr::Release on the layout l: the last reference runs ~BindingLayout,
\* which destroys the native layout when there is one
releaseLayout(r, l) ==
    IF RefCount(r) = 0 /\ ~r.layoutDestroyed
    THEN [r EXCEPT !.layoutDestroyed = TRUE, !.nativeDestroyed = (l.descriptorSetLayout # VkNull)]
    ELSE r

RemoveAt(s, k) == SubSeq(s, 1, k - 1) \o SubSeq(s, k + 1, Len(s))

\* the layout followed in layoutRefs is the one this description was built into
TrackedDesc(layoutDesc) ==
    /\ layout.bakeResult # "none"
    /\ ~layout.isBindless
    /\ layout.desc = layoutDesc
    /\ ~layoutRefs.layoutDestroyed

TrackedLayout(l) ==
    /\ layout.bakeResult # "none"
    /\ l = layout
    /\ ~layoutRefs.layoutDestroyed

\* what the caller of op gets: BindingLayoutHandle::Create(ret) is never null, the
\* result of bake() is dropped, and bake() calls createDescriptorSetLayout once
LayoutCall(op) ==
    [op |-> op, args |-> [slot |-> 0, type |-> "None"], ret |-> TRUE,
     calls |-> <<[fn |-> "createDescriptorSetLayout", writes |-> <<>>,
                  view |-> [buffer |-> "null", byteOffset |-> <<0, 0, 0, 0>>,
                            byteSize |-> <<0, 0, 0, 0>>, format |-> 0]]>>]

\* createBindlessLayout on a device whose context has (or lacks)
\* extensions.EXT_mutable_descriptor_type
BindlessLayoutCall(mutableSupported) ==
    [LayoutCall("createBindlessLayout") EXCEPT
        !.args = [slot |-> 0, type |-> "None", mutableDescriptorType |-> mutableSupported]]

createBindingLayout(desc) ==
    /\ layout = NoLayout
    /\ \E res \in VkResults :
      LET l == BindingLayoutFromDesc(desc)
      IN  \E order \in IterationOrders(DOMAIN poolSizeMap(l.vulkanLayoutBindings, 1, EmptyMap)) :
            /\ layout' = bake(l, res, order, Handle("descriptorSetLayout", 1))
            /\ errors' = <<>>
            /\ lastCall' = LayoutCall("createBindingLayout")
            /\ layoutRefs' = [NoRefs EXCEPT !.layoutHandles = 1]
            /\ UNCHANGED <<table, viewCache, viewsCreated, typedBound,
                           pipeline, volatileBufferStates, cmdBuf, bindInput, process>>

createBindlessLayout(bdesc, mutableSupported) ==
    /\ layout = NoLayout
    /\ \E res \in VkResults :
      LET l == BindingLayoutFromBindlessDesc(bdesc)
      IN  \E order \in IterationOrders(DOMAIN poolSizeMap(l.vulkanLayoutBindings, 1, EmptyMap)) :
            /\ layout' = bake(l, res, order, Handle("descriptorSetLayout", 1))
            /\ errors' = BindlessLayoutErrors(bdesc, mutableSupported)
            /\ lastCall' = BindlessLayoutCall(mutableSupported)
            /\ layoutRefs' = [NoRefs EXCEPT !.layoutHandles = 1]
            /\ UNCHANGED <<table, viewCache, viewsCreated, typedBound,
                           pipeline, volatileBufferStates, cmdBuf, bindInput, process>>

(***************************************************************************)
(* Resources: the buffers, textures, samplers and acceleration structures  *)
(* that binding items refer to.                                            *)
(***************************************************************************)
NullHandle == "null"

\* ResourceStates bits; the empty set is ResourceStates::Unknown (no permanent state)
NoPermanentState == {}

BufferNames == {"tb", "sb", "sbPerm", "vcbA", "vcbB"}
TextureNames == {"tex", "texDepth", "texPerm"}
SamplerNames == {"smp"}
AccelStructNames == {"as"}

\* Buffer::desc and Buffer::permanentState
Buffer(name) ==
    CASE name = "tb" ->
           [byteSize |-> U64(2048), format |-> "RGBA32_FLOAT", isVolatile |-> FALSE,
            permanentState |-> NoPermanentState]
      [] name = "sb" ->
           [byteSize |-> U64(1024), format |-> "UNKNOWN", isVolatile |-> FALSE,
            permanentState |-> NoPermanentState]
      [] name = "sbPerm" ->
           [byteSize |-> U64(1024), format |-> "UNKNOWN", isVolatile |-> FALSE,
            permanentState |-> {"ShaderResource"}]
      [] name = "vcbA" ->
           [byteSize |-> U64(256), format |-> "UNKNOWN", isVolatile |-> TRUE,
            permanentState |-> NoPermanentState]
      [] name = "vcbB" ->     \* 2^32 - 1 bytes per version
           [byteSize |-> UInt32Max, format |-> "UNKNOWN", isVolatile |-> TRUE,
            permanentState |-> NoPermanentState]

\* Texture::desc.format and Texture::permanentState
Texture(name) ==
    CASE name = "tex" -> [format |-> "RGBA8_UNORM", permanentState |-> NoPermanentState]
      [] name = "texDepth" -> [format |-> "D32", permanentState |-> NoPermanentState]
      [] name = "texPerm" -> [format |-> "RGBA8_UNORM", permanentState |-> {"ShaderResource"}]

Formats == {"UNKNOWN", "RGBA8_UNORM", "RGBA16_SINT", "RGBA32_FLOAT", "D32", "X24G8_UINT"}

\* nvrhi::vulkan::convertFormat: the VkFormat value of a Format
convertFormat(format) ==
    CASE format = "RGBA8_UNORM" -> 37
      [] format = "RGBA16_SINT" -> 96
      [] format = "RGBA32_FLOAT" -> 109
      [] format = "D32" -> 126
      [] format = "X24G8_UINT" -> 129
      [] OTHER -> 0

\* getFormatInfo(format).hasDepth / .hasStencil
FormatHasDepth(format) == format \in {"D32"}
FormatHasStencil(format) == format \in {"X24G8_UINT"}

\* BufferRange::resolve
resolveBufferRange(range, bufferDesc) ==
    LET offset == MinU64(range.byteOffset, bufferDesc.byteSize)
    IN  [byteOffset |-> offset,
         byteSize |-> IF range.byteSize = U64(0)
                      THEN SubU64(bufferDesc.byteSize, offset)
                      ELSE MinU64(range.byteSize, SubU64(bufferDesc.byteSize, offset))]

\* nvrhi::hash_combine with std::hash<uint64_t> the identity
hash_combine(seed, v) ==
    LET hashed == AddU64(AddU64(AddU64(v, <<31161, 40503, 0, 0>>), Shl6U64(seed)),
                         Shr2U64(seed))
    IN  XorU64(seed, hashed)

\* verifyPermanentResourceState: the messages it reports
verifyPermanentResourceState(permanentState, requiredState) ==
    IF requiredState \in permanentState THEN <<>> ELSE <<"PermanentStateMismatch">>

(***************************************************************************)
(* getTextureViewType                                                      *)
(***************************************************************************)
getTextureViewType(bindingFormat, textureFormat) ==
    LET format == IF bindingFormat = "UNKNOWN" THEN textureFormat ELSE bindingFormat
    IN  IF FormatHasDepth(format) THEN "DepthOnly"
        ELSE IF FormatHasStencil(format) THEN "StencilOnly"
        ELSE "AllAspects"

(***************************************************************************)
(* The buffer view cache: lookup of a (range, format) hash, creation of    *)
(* the native view on a miss.                                              *)
(***************************************************************************)
viewInfoHash(range, vkformat) ==
    hash_combine(hash_combine(hash_combine(U64(0), range.byteOffset), range.byteSize),
                 U64(vkformat))

NoView == [buffer |-> NullHandle, byteOffset |-> U64(0), byteSize |-> U64(0), format |-> 0]

\* cache is Buffer::viewCache of `buffer`; the result carries the updated cache,
\* the view the descriptor write refers to and whether createBufferView was called
lookupOrCreateBufferView(cache, buffer, range, vkformat) ==
    LET hash == viewInfoHash(range, vkformat)
    IN  IF hash \in DOMAIN cache
        THEN [cache |-> cache, view |-> cache[hash], created |-> FALSE]
        ELSE LET view == [buffer |-> buffer, byteOffset |-> range.byteOffset,
                          byteSize |-> range.byteSize, format |-> vkformat]
             IN  [cache |-> cache @@ (hash :> view), view |-> view, created |-> TRUE]

(***************************************************************************)
(* Device::createBindingSet                                                *)
(***************************************************************************)
WholeRange == [byteOffset |-> U64(0), byteSize |-> U64(0)]

\* one vk::WriteDescriptorSet together with the info structure it points to
\* a variant with the binding location and the array element exchanged
WriteDescriptor_Swapped(dstBinding, dstArrayElement, descriptorType, kind, resource, view, imageLayout, range) ==
    [dstBinding |-> dstArrayElement, dstArrayElement |-> dstBinding,
     descriptorType |-> descriptorType, kind |-> kind, resource |-> resource,
     view |-> view, imageLayout |-> imageLayout, range |-> range]

\* a variant that always writes array element 0
WriteDescriptor_ElementZero(dstBinding, dstArrayElement, descriptorType, kind, resource, view, imageLayout, range) ==
    [dstBinding |-> dstBinding, dstArrayElement |-> 0,
     descriptorType |-> descriptorType, kind |-> kind, resource |-> resource,
     view |-> view, imageLayout |-> imageLayout, range |-> range]

WriteDescriptor(dstBinding, dstArrayElement, descriptorType, kind, resource, view, imageLayout, range) ==
    [dstBinding |-> dstBinding, dstArrayElement |-> dstArrayElement,
     descriptorType |-> descriptorType, kind |-> kind, resource |-> resource,
     view |-> view, imageLayout |-> imageLayout, range |-> range]

\* Texture::getSubresourceView arguments, which identify the view
TextureView(binding, isUAV) ==
    [buffer |-> binding.resourceHandle, byteOffset |-> U64(0), byteSize |-> U64(0),
     format |-> convertFormat(binding.format),
     usage |-> IF isUAV THEN "eStorage" ELSE "eSampled",
     singleMipLevel |-> isUAV,
     viewType |-> getTextureViewType(binding.format, Texture(binding.resourceHandle).format)]

\* the state the item loop of createBindingSet carries from item to item
NewSetAcc(cache) ==
    [resources |-> <<>>, bindingsThatNeedTransitions |-> <<>>,
     volatileConstantBuffers |-> <<>>, writes |-> <<>>, errors |-> <<>>,
     cache |-> cache, created |-> <<>>, bound |-> {}, views |-> <<>>]

\* one iteration of the loop over desc.bindings (bindingIndex counts from 0)
createBindingSetItem(acc, layoutDesc, binding, bindingIndex) ==
    IF binding.resourceHandle = NullHandle THEN acc
    ELSE
    LET a0 == [acc EXCEPT !.resources = Append(@, binding.resourceHandle)]
        descriptorType == convertResourceType(binding.type)
        registerOffset == getRegisterOffsetForResourceType(layoutDesc.bindingOffsets, binding.type)
        location == registerOffset + binding.slot
    IN
    CASE binding.type \in {"Texture_SRV", "Texture_UAV"} ->
           LET isUAV == binding.type = "Texture_UAV"
               texture == Texture(binding.resourceHandle)
               view == TextureView(binding, isUAV)
               w == WriteDescriptor(location, binding.arrayElement, descriptorType, "image",
                        binding.resourceHandle, view,
                        IF isUAV THEN "eGeneral" ELSE "eShaderReadOnlyOptimal", WholeRange)
               a1 == [a0 EXCEPT !.writes = Append(@, w), !.views = Append(@, view)]
           IN  IF texture.permanentState = NoPermanentState
               THEN [a1 EXCEPT !.bindingsThatNeedTransitions = Append(@, bindingIndex)]
               ELSE [a1 EXCEPT !.errors = @ \o verifyPermanentResourceState(texture.permanentState,
                                     IF isUAV THEN "UnorderedAccess" ELSE "ShaderResource")]
      [] binding.type \in {"TypedBuffer_SRV", "TypedBuffer_UAV"} ->
           LET isUAV == binding.type = "TypedBuffer_UAV"
               buffer == Buffer(binding.resourceHandle)
               format == IF binding.format = "UNKNOWN" THEN buffer.format ELSE binding.format
               vkformat == convertFormat(format)
               range == resolveBufferRange(binding.range, buffer)
               found == lookupOrCreateBufferView(a0.cache[binding.resourceHandle],
                                                 binding.resourceHandle, range, vkformat)
               triple == [buffer |-> binding.resourceHandle, byteOffset |-> range.byteOffset,
                          byteSize |-> range.byteSize, format |-> vkformat]
               w == WriteDescriptor(location, binding.arrayElement, descriptorType, "texel",
                        binding.resourceHandle, found.view, "eUndefined", range)
               a1 == [a0 EXCEPT !.writes = Append(@, w),
                                !.cache = [@ EXCEPT ![binding.resourceHandle] = found.cache],
                                !.created = IF found.created THEN Append(@, triple) ELSE @,
                                !.bound = @ \cup {triple}]
           IN  IF buffer.permanentState = NoPermanentState
               THEN [a1 EXCEPT !.bindingsThatNeedTransitions = Append(@, bindingIndex)]
               ELSE [a1 EXCEPT !.errors = @ \o verifyPermanentResourceState(buffer.permanentState,
                                     IF isUAV THEN "UnorderedAccess" ELSE "ShaderResource")]
      [] binding.type \in {"StructuredBuffer_SRV", "StructuredBuffer_UAV", "RawBuffer_SRV",
                           "RawBuffer_UAV", "ConstantBuffer", "VolatileConstantBuffer"} ->
           LET buffer == Buffer(binding.resourceHandle)
               range == resolveBufferRange(binding.range, buffer)
               w == WriteDescriptor(location, binding.arrayElement, descriptorType, "buffer",
                        binding.resourceHandle, NoView, "eUndefined", range)
               a1 == [a0 EXCEPT !.writes = Append(@, w)]
               requiredState ==
                   IF binding.type \in {"StructuredBuffer_UAV", "RawBuffer_UAV"}
                   THEN "UnorderedAccess"
                   ELSE IF binding.type = "ConstantBuffer" THEN "ConstantBuffer"
                   ELSE "ShaderResource"
           IN  IF binding.type = "VolatileConstantBuffer"
               THEN [a1 EXCEPT !.volatileConstantBuffers = Append(@, binding.resourceHandle)]
               ELSE IF buffer.permanentState = NoPermanentState
               THEN [a1 EXCEPT !.bindingsThatNeedTransitions = Append(@, bindingIndex)]
               ELSE [a1 EXCEPT !.errors = @ \o verifyPermanentResourceState(buffer.permanentState,
                                                                            requiredState)]
      [] binding.type = "Sampler" ->
           [a0 EXCEPT !.writes = Append(@,
               WriteDescriptor(location, binding.arrayElement, descriptorType, "sampler",
                   binding.resourceHandle, NoView, "eUndefined", WholeRange))]
      [] binding.type = "RayTracingAccelStruct" ->
           [a0 EXCEPT !.writes = Append(@,
               WriteDescriptor(location, binding.arrayElement, descriptorType, "accelStruct",
                   binding.resourceHandle, NoView, "eUndefined", WholeRange)),
                     !.bindingsThatNeedTransitions = Append(@, bindingIndex)]
      [] binding.type = "PushConstants" -> a0
      [] OTHER -> [a0 EXCEPT !.errors = Append(@, "InvalidEnum")]

RECURSIVE createBindingSetLoop_OneBased(_, _, _, _)
\* a variant that counts the binding index from 1
createBindingSetLoop_OneBased(acc, layoutDesc, bindings, i) ==
    IF i > Len(bindings) THEN acc
    ELSE createBindingSetLoop_OneBased(createBindingSetItem(acc, layoutDesc, bindings[i], i),
                                       layoutDesc, bindings, i + 1)

RECURSIVE createBindingSetLoop(_, _, _, _)
createBindingSetLoop(acc, layoutDesc, bindings, i) ==
    IF i > Len(bindings) THEN acc
    ELSE createBindingSetLoop(createBindingSetItem(acc, layoutDesc, bindings[i], i - 1),
                              layoutDesc, bindings, i + 1)

NoSetDesc == [bindings |-> <<>>, trackLiveness |-> FALSE]

\* a null BindingSetHandle
NoSet ==
    [isSet |-> FALSE, desc |-> NoSetDesc, descriptorSet |-> VkNull, resources |-> <<>>,
     bindingsThatNeedTransitions |-> <<>>, volatileConstantBuffers |-> <<>>]

\* the BindingSet object createBindingSet returns once the pool and the
\* descriptor set are allocated; acc is the outcome of the item loop
\* a variant that keeps the handle of every item, null or not
BindingSetObject_AllItems(desc, acc, handle) ==
    [isSet |-> TRUE, desc |-> desc, descriptorSet |-> handle,
     resources |-> [i \in 1..Len(desc.bindings) |-> desc.bindings[i].resourceHandle],
     bindingsThatNeedTransitions |-> acc.bindingsThatNeedTransitions,
     volatileConstantBuffers |-> acc.volatileConstantBuffers]

BindingSetObject(desc, acc, handle) ==
    [isSet |-> TRUE, desc |-> desc, descriptorSet |-> handle, resources |-> acc.resources,
     bindingsThatNeedTransitions |-> acc.bindingsThatNeedTransitions,
     volatileConstantBuffers |-> acc.volatileConstantBuffers]

\* a native call recorded in lastCall.calls
NativeCall(fn, writes, view) == [fn |-> fn, writes |-> writes, view |-> view]

RECURSIVE CreateViewCalls(_, _)
\* the createBufferView calls of one operation, in call order
CreateViewCalls(created, i) ==
    IF i > Len(created) THEN <<>>
    ELSE <<NativeCall("createBufferView", <<>>, created[i])>> \o CreateViewCalls(created, i + 1)

RECURSIVE TextureViewCalls(_, _)
\* the views looked up or created through Texture::getSubresourceView
TextureViewCalls(views, i) ==
    IF i > Len(views) THEN <<>>
    ELSE <<NativeCall("getSubresourceView", <<>>, views[i])>> \o TextureViewCalls(views, i + 1)

RECURSIVE CountCreated(_, _, _)
\* viewsCreated with every call of `created` counted
CountCreated(counts, created, i) ==
    IF i > Len(created) THEN counts
    ELSE LET c0 == IF created[i] \in DOMAIN counts THEN counts ELSE counts @@ (created[i] :> 0)
         IN  CountCreated([c0 EXCEPT ![created[i]] = @ + 1], created, i + 1)

NoArgs == [slot |-> 0, type |-> "None"]

\* op is the operation, args its argument (the BindingSetDesc of createBindingSet,
\* the BindingSetItem of writeDescriptorTable), ret what it returned (the BindingSet
\* object of createBindingSet, NoSet for a null handle)
NoCall == [op |-> "none", args |-> NoArgs, ret |-> FALSE, calls |-> <<>>]

\* poolRes and allocRes are the results of createDescriptorPool and allocateDescriptorSets
createBindingSet(desc, layoutDesc) ==
    \E poolRes \in VkResults, allocRes \in VkResults :
      IF poolRes # "eSuccess" \/ allocRes # "eSuccess"
      THEN /\ lastCall' = [op |-> "createBindingSet", args |-> desc, ret |-> NoSet, calls |-> <<>>]
           /\ errors' = <<>>
           /\ layoutRefs' = holdLayout(layoutRefs, TrackedDesc(layoutDesc), "BindingSet", 0, <<>>)
           /\ UNCHANGED <<layout, table, viewCache, viewsCreated, typedBound, pipeline,
                          volatileBufferStates, cmdBuf, bindInput, process>>
      ELSE \E acc \in {createBindingSetLoop(NewSetAcc(viewCache), layoutDesc, desc.bindings, 1)} :
               /\ viewCache' = acc.cache
               /\ viewsCreated' = CountCreated(viewsCreated, acc.created, 1)
               /\ typedBound' = typedBound \cup acc.bound
               /\ errors' = acc.errors
               /\ lastCall' = [op |-> "createBindingSet", args |-> desc,
                               ret |-> BindingSetObject(desc, acc, Handle("descriptorSet", 1)),
                               calls |-> TextureViewCalls(acc.views, 1)
                                   \o CreateViewCalls(acc.created, 1)
                                   \o <<NativeCall("updateDescriptorSets", acc.writes, NoView)>>]
               /\ layoutRefs' = holdLayout(layoutRefs, TrackedDesc(layoutDesc), "BindingSet", 1,
                                            acc.resources)
               /\ UNCHANGED <<layout, table, pipeline, volatileBufferStates, cmdBuf,
                              bindInput, process>>

(***************************************************************************)
(* Device::createDescriptorTable, Device::resizeDescriptorTable            *)
(***************************************************************************)
NoTable == [layout |-> NoLayout, capacity |-> 0, descriptorSet |-> VkNull]

\* the table after both native allocations succeeded
DescriptorTableObject(l, handle) ==
    [layout |-> l, capacity |-> l.vulkanLayoutBindings[1].descriptorCount, descriptorSet |-> handle]

createDescriptorTable(l) ==
    /\ table = NoTable
    /\ Len(l.vulkanLayoutBindings) > 0
    /\ \E poolRes \in VkResults, allocRes \in VkResults :
         /\ table' = IF poolRes = "eSuccess" /\ allocRes = "eSuccess"
                     THEN DescriptorTableObject(l, Handle("descriptorSet", 2)) ELSE NoTable
         /\ lastCall' = [op |-> "createDescriptorTable", args |-> NoArgs,
                         ret |-> poolRes = "eSuccess" /\ allocRes = "eSuccess", calls |-> <<>>]
         /\ errors' = <<>>
         /\ layoutRefs' = holdLayout(layoutRefs, TrackedLayout(l), "DescriptorTable",
                               IF poolRes = "eSuccess" /\ allocRes = "eSuccess" THEN 1 ELSE 0,
                               <<>>)
         /\ UNCHANGED <<layout, viewCache, viewsCreated, typedBound, pipeline,
                        volatileBufferStates, cmdBuf, bindInput, process>>

(***************************************************************************)
(* Releasing handles: ~BindingSet, ~DescriptorTable, ~BindingLayout         *)
(***************************************************************************)
\* the application drops its handle of the layout
releaseBindingLayout ==
    /\ layoutRefs.layoutHandles > 0
    /\ layoutRefs' = releaseLayout([layoutRefs EXCEPT !.layoutHandles = @ - 1], layout)
    /\ lastCall' = [op |-> "releaseBindingLayout", args |-> NoArgs, ret |-> TRUE, calls |-> <<>>]
    /\ errors' = <<>>
    /\ UNCHANGED <<layout, table, viewCache, viewsCreated, typedBound, pipeline,
                   volatileBufferStates, cmdBuf, bindInput, process>>

\* the application drops its handle of the k-th object created against the
\* layout, a BindingSet: ~BindingSet destroys the pool, then the members go
releaseBindingSet(k) ==
    /\ k \in 1..Len(layoutRefs.holders)
    /\ layoutRefs.holders[k].kind = "BindingSet"
    /\ layoutRefs.holders[k].handles > 0
    /\ layoutRefs' = releaseLayout([layoutRefs EXCEPT !.holders = RemoveAt(@, k)], layout)
    /\ lastCall' = [op |-> "releaseBindingSet", args |-> NoArgs, ret |-> TRUE,
                    calls |-> <<NativeCall("destroyDescriptorPool", <<>>, NoView)>>]
    /\ errors' = <<>>
    /\ UNCHANGED <<layout, table, viewCache, viewsCreated, typedBound, pipeline,
                   volatileBufferStates, cmdBuf, bindInput, process>>

\* the same for a DescriptorTable
releaseDescriptorTable(k) ==
    /\ k \in 1..Len(layoutRefs.holders)
    /\ layoutRefs.holders[k].kind = "DescriptorTable"
    /\ layoutRefs.holders[k].handles > 0
    /\ layoutRefs' = releaseLayout([layoutRefs EXCEPT !.holders = RemoveAt(@, k)], layout)
    /\ table' = NoTable
    /\ lastCall' = [op |-> "releaseDescriptorTable", args |-> NoArgs, ret |-> TRUE,
                    calls |-> <<NativeCall("destroyDescriptorPool", <<>>, NoView)>>]
    /\ errors' = <<>>
    /\ UNCHANGED <<layout, viewCache, viewsCreated, typedBound, pipeline,
                   volatileBufferStates, cmdBuf, bindInput, process>>

\* a variant that reallocates the table at the new size
resizeDescriptorTable_Reallocate(newSize, keepContents) ==
    /\ table # NoTable
    /\ table' = [table EXCEPT !.capacity = newSize, !.descriptorSet = Handle("descriptorSet", 3)]
    /\ lastCall' = [op |-> "resizeDescriptorTable", args |-> NoArgs, ret |-> TRUE, calls |-> <<>>]
    /\ errors' = <<>>
    /\ UNCHANGED <<layoutRefs, layout, viewCache, viewsCreated, typedBound, pipeline,
                   volatileBufferStates, cmdBuf, bindInput, process>>

\* the body is one assert and two (void) casts: a build with assertions stops
\* on newSize > maxCapacity, every other call changes nothing
resizeDescriptorTable(newSize, keepContents) ==
    /\ table # NoTable
    /\ ~process.aborted
    /\ process' = [process EXCEPT !.aborted =
                       ~process.ndebug /\ newSize > table.layout.bindlessDesc.maxCapacity]
    /\ lastCall' = [op |-> "resizeDescriptorTable", args |-> NoArgs,
                    ret |-> process.ndebug \/ newSize <= table.layout.bindlessDesc.maxCapacity,
                    calls |-> <<>>]
    /\ errors' = <<>>
    /\ UNCHANGED <<layoutRefs, layout, table, viewCache, viewsCreated, typedBound, pipeline,
                   volatileBufferStates, cmdBuf, bindInput>>

(***************************************************************************)
(* Device::writeDescriptorTable                                            *)
(***************************************************************************)
NewTableAcc(cache) ==
    [writes |-> <<>>, errors |-> <<>>, cache |-> cache, created |-> <<>>, bound |-> {},
     views |-> <<>>]

\* the writeDescriptorForBinding lambda: one descriptor write at layoutBinding
writeDescriptorForBinding(acc, layoutBinding, binding) ==
    LET descriptorType == convertResourceType(binding.type)
        location == layoutBinding.binding
    IN
    CASE binding.type \in {"Texture_SRV", "Texture_UAV"} ->
           LET isUAV == binding.type = "Texture_UAV"
               view == TextureView(binding, isUAV)
           IN  [acc EXCEPT !.writes = Append(@,
                   WriteDescriptor(location, binding.slot, descriptorType, "image",
                       binding.resourceHandle, view,
                       IF isUAV THEN "eGeneral" ELSE "eShaderReadOnlyOptimal", WholeRange)),
                           !.views = Append(@, view)]
      [] binding.type \in {"TypedBuffer_SRV", "TypedBuffer_UAV"} ->
           LET buffer == Buffer(binding.resourceHandle)
               vkformat == convertFormat(binding.format)
               range == resolveBufferRange(binding.range, buffer)
               found == lookupOrCreateBufferView(acc.cache[binding.resourceHandle],
                                                 binding.resourceHandle, range, vkformat)
               triple == [buffer |-> binding.resourceHandle, byteOffset |-> range.byteOffset,
                          byteSize |-> range.byteSize, format |-> vkformat]
           IN  [acc EXCEPT !.writes = Append(@,
                   WriteDescriptor(location, binding.slot, descriptorType, "texel",
                       binding.resourceHandle, found.view, "eUndefined", range)),
                           !.cache = [@ EXCEPT ![binding.resourceHandle] = found.cache],
                           !.created = IF found.created THEN Append(@, triple) ELSE @,
                           !.bound = @ \cup {triple}]
      [] binding.type \in {"StructuredBuffer_SRV", "StructuredBuffer_UAV", "RawBuffer_SRV",
                           "RawBuffer_UAV", "ConstantBuffer", "VolatileConstantBuffer"} ->
           [acc EXCEPT !.writes = Append(@,
               WriteDescriptor(location, binding.slot, descriptorType, "buffer",
                   binding.resourceHandle, NoView, "eUndefined",
                   resolveBufferRange(binding.range, Buffer(binding.resourceHandle))))]
      [] binding.type = "Sampler" ->
           [acc EXCEPT !.writes = Append(@,
               WriteDescriptor(location, binding.slot, descriptorType, "sampler",
                   binding.resourceHandle, NoView, "eUndefined", WholeRange))]
      [] binding.type = "RayTracingAccelStruct" -> [acc EXCEPT !.errors = Append(@, "NotImplemented")]
      [] binding.type = "PushConstants" -> [acc EXCEPT !.errors = Append(@, "NotSupported")]
      [] OTHER -> [acc EXCEPT !.errors = Append(@, "InvalidEnum")]

\* a variant that stops at the first register space of the binding's type
writeRegisterSpaces_FirstMatch(acc, l, binding, bindingLocation) ==
    LET matches == {k \in 1..Len(l.bindlessDesc.registerSpaces) :
                       l.bindlessDesc.registerSpaces[k].type = binding.type}
    IN  IF matches = {} THEN acc
        ELSE writeDescriptorForBinding(acc,
                 l.vulkanLayoutBindings[CHOOSE k \in matches : \A j \in matches : k <= j],
                 binding)

RECURSIVE writeRegisterSpaces(_, _, _, _)
\* the loop over bindlessDesc.registerSpaces of an Immutable layout
writeRegisterSpaces(acc, l, binding, bindingLocation) ==
    IF bindingLocation >= Len(l.bindlessDesc.registerSpaces) THEN acc
    ELSE writeRegisterSpaces(
             IF l.bindlessDesc.registerSpaces[bindingLocation + 1].type = binding.type
             THEN writeDescriptorForBinding(acc, l.vulkanLayoutBindings[bindingLocation + 1], binding)
             ELSE acc,
             l, binding, bindingLocation + 1)

\* a faulty variant: the slot equal to the capacity is accepted
writeDescriptorTable_OffByOne(binding) ==
    /\ table # NoTable
    /\ IF binding.slot > table.capacity
       THEN /\ lastCall' = [op |-> "writeDescriptorTable", args |-> binding, ret |-> FALSE, calls |-> <<>>]
            /\ errors' = <<>>
            /\ UNCHANGED <<layoutRefs, viewCache, viewsCreated, typedBound>>
       ELSE IF binding.type = "None"
       THEN /\ lastCall' = [op |-> "writeDescriptorTable", args |-> binding, ret |-> TRUE, calls |-> <<>>]
            /\ errors' = <<>>
            /\ UNCHANGED <<layoutRefs, viewCache, viewsCreated, typedBound>>
       ELSE \E acc \in {IF table.layout.bindlessDesc.layoutType # "Immutable"
                          THEN writeDescriptorForBinding(NewTableAcc(viewCache),
                                   table.layout.vulkanLayoutBindings[1], binding)
                          ELSE writeRegisterSpaces(NewTableAcc(viewCache), table.layout,
                                                   binding, 0)} :
                /\ lastCall' = [op |-> "writeDescriptorTable", args |-> binding, ret |-> TRUE,
                                calls |-> TextureViewCalls(acc.views, 1)
                                    \o CreateViewCalls(acc.created, 1)
                                    \o <<NativeCall("updateDescriptorSets", acc.writes, NoView)>>]
                /\ errors' = acc.errors
                /\ viewCache' = acc.cache
                /\ viewsCreated' = CountCreated(viewsCreated, acc.created, 1)
                /\ typedBound' = typedBound \cup acc.bound
    /\ UNCHANGED <<layoutRefs, layout, table, pipeline, volatileBufferStates, cmdBuf,
                   bindInput, process>>

writeDescriptorTable(binding) ==
    /\ table # NoTable
    /\ IF binding.slot >= table.capacity
       THEN /\ lastCall' = [op |-> "writeDescriptorTable", args |-> binding, ret |-> FALSE, calls |-> <<>>]
            /\ errors' = <<>>
            /\ UNCHANGED <<layoutRefs, viewCache, viewsCreated, typedBound>>
       ELSE IF binding.type = "None"
       THEN /\ lastCall' = [op |-> "writeDescriptorTable", args |-> binding, ret |-> TRUE, calls |-> <<>>]
            /\ errors' = <<>>
            /\ UNCHANGED <<layoutRefs, viewCache, viewsCreated, typedBound>>
       ELSE \E acc \in {IF table.layout.bindlessDesc.layoutType # "Immutable"
                          THEN writeDescriptorForBinding(NewTableAcc(viewCache),
                                   table.layout.vulkanLayoutBindings[1], binding)
                          ELSE writeRegisterSpaces(NewTableAcc(viewCache), table.layout,
                                                   binding, 0)} :
                /\ lastCall' = [op |-> "writeDescriptorTable", args |-> binding, ret |-> TRUE,
                                calls |-> TextureViewCalls(acc.views, 1)
                                    \o CreateViewCalls(acc.created, 1)
                                    \o <<NativeCall("updateDescriptorSets", acc.writes, NoView)>>]
                /\ errors' = acc.errors
                /\ viewCache' = acc.cache
                /\ viewsCreated' = CountCreated(viewsCreated, acc.created, 1)
                /\ typedBound' = typedBound \cup acc.bound
    /\ UNCHANGED <<layoutRefs, layout, table, pipeline, volatileBufferStates, cmdBuf,
                   bindInput, process>>

(***************************************************************************)
(* createPipelineLayout                                                    *)
(***************************************************************************)
\* the entry 0xffffffff of descriptorSetIdxToBindingIdx
InvalidIdx == 0 - 1

EmptyDescriptorSetLayout == Handle("emptyDescriptorSetLayout", 0)

RECURSIVE firstNonBindlessFlag_AnyFlag(_, _)
\* a variant that looks for the flag in every non-bindless layout
firstNonBindlessFlag_AnyFlag(inBindingLayouts, i) ==
    IF i > Len(inBindingLayouts) THEN FALSE
    ELSE IF ~inBindingLayouts[i].isBindless /\ inBindingLayouts[i].desc.registerSpaceIsDescriptorSet
         THEN TRUE
         ELSE firstNonBindlessFlag_AnyFlag(inBindingLayouts, i + 1)

RECURSIVE firstNonBindlessFlag(_, _)
\* the first loop: registerSpaceIsDescriptorSet of the first non-bindless layout
firstNonBindlessFlag(inBindingLayouts, i) ==
    IF i > Len(inBindingLayouts) THEN FALSE
    ELSE IF ~inBindingLayouts[i].isBindless
         THEN inBindingLayouts[i].desc.registerSpaceIsDescriptorSet
         ELSE firstNonBindlessFlag(inBindingLayouts, i + 1)

RECURSIVE numRegularDescriptorSets(_, _, _)
numRegularDescriptorSets(inBindingLayouts, i, n) ==
    IF i > Len(inBindingLayouts) THEN n
    ELSE numRegularDescriptorSets(inBindingLayouts, i + 1,
             IF ~inBindingLayouts[i].isBindless /\ inBindingLayouts[i].desc.registerSpace + 1 > n
             THEN inBindingLayouts[i].desc.registerSpace + 1 ELSE n)

RECURSIVE placeLayouts_SpaceAsIndex(_, _, _)
\* a faulty variant: the map of a regular position holds the register space
placeLayouts_SpaceAsIndex(inBindingLayouts, i, out) ==
    IF i >= Len(inBindingLayouts) THEN out
    ELSE LET l == inBindingLayouts[i + 1]
         IN  placeLayouts_SpaceAsIndex(inBindingLayouts, i + 1,
                 IF l.isBindless
                 THEN [layouts |-> Append(out.layouts, l), map |-> Append(out.map, i)]
                 ELSE [layouts |-> [out.layouts EXCEPT ![l.desc.registerSpace + 1] = l],
                       map |-> [out.map EXCEPT ![l.desc.registerSpace + 1] =
                                                   l.desc.registerSpace]])

RECURSIVE placeLayouts(_, _, _)
\* the loop that fills outBindingLayouts and outDescriptorSetIdxToBindingIdx in
\* indexed mode; i counts the input layouts from 0
placeLayouts(inBindingLayouts, i, out) ==
    IF i >= Len(inBindingLayouts) THEN out
    ELSE LET l == inBindingLayouts[i + 1]
         IN  placeLayouts(inBindingLayouts, i + 1,
                 IF l.isBindless
                 THEN [layouts |-> Append(out.layouts, l), map |-> Append(out.map, i)]
                 ELSE [layouts |-> [out.layouts EXCEPT ![l.desc.registerSpace + 1] = l],
                       map |-> [out.map EXCEPT ![l.desc.registerSpace + 1] = i]])

\* outBindingLayouts (a null pointer is NoLayout) and outDescriptorSetIdxToBindingIdx
pipelineBindingLayouts(inBindingLayouts) ==
    IF firstNonBindlessFlag(inBindingLayouts, 1)
    THEN LET n == numRegularDescriptorSets(inBindingLayouts, 1, 0)
         IN  placeLayouts(inBindingLayouts, 0,
                          [layouts |-> [k \in 1..n |-> NoLayout], map |-> [k \in 1..n |-> InvalidIdx]])
    ELSE [layouts |-> inBindingLayouts, map |-> <<>>]

\* a variant that takes the first item of a layout for its push constants
firstPushConstants_FirstItem(bindings, i) ==
    IF Len(bindings) = 0 THEN 0 ELSE 1

RECURSIVE firstPushConstants(_, _)
\* the first PushConstants item of a layout's bindings, or 0 when it has none
firstPushConstants(bindings, i) ==
    IF i > Len(bindings) THEN 0
    ELSE IF bindings[i].type = "PushConstants" THEN i
    ELSE firstPushConstants(bindings, i + 1)

RECURSIVE collectLayouts(_, _, _)
\* the loop over outBindingLayouts: native layouts and the push-constant range
collectLayouts(outLayouts, i, acc) ==
    IF i > Len(outLayouts) THEN acc
    ELSE LET l == outLayouts[i]
             p == IF l # NoLayout /\ ~l.isBindless THEN firstPushConstants(l.desc.bindings, 1) ELSE 0
         IN  collectLayouts(outLayouts, i + 1,
                 IF l = NoLayout
                 THEN [acc EXCEPT !.descriptorSetLayouts = Append(@, EmptyDescriptorSetLayout)]
                 ELSE [descriptorSetLayouts |-> Append(acc.descriptorSetLayouts, l.descriptorSetLayout),
                       pushConstantSize |-> IF p > 0 THEN l.desc.bindings[p].size
                                            ELSE acc.pushConstantSize,
                       visibility |-> IF p > 0
                                      THEN convertShaderTypeToShaderStageFlagBits(l.desc.visibility)
                                      ELSE acc.visibility])

NoPipeline ==
    [inBindingLayouts |-> <<>>, outBindingLayouts |-> <<>>, outDescriptorSetIdxToBindingIdx |-> <<>>,
     descriptorSetLayouts |-> <<>>, pushConstantRanges |-> <<>>,
     outPushConstantVisibility |-> "eNone", res |-> "none"]

\* every output of the function for the input inBindingLayouts and native result res
pipelineLayoutOutputs(inBindingLayouts, res) ==
    LET out == pipelineBindingLayouts(inBindingLayouts)
        acc == collectLayouts(out.layouts, 1,
                   [descriptorSetLayouts |-> <<>>, pushConstantSize |-> 0, visibility |-> "eNone"])
    IN  [inBindingLayouts |-> inBindingLayouts,
         outBindingLayouts |-> out.layouts,
         outDescriptorSetIdxToBindingIdx |-> out.map,
         descriptorSetLayouts |-> acc.descriptorSetLayouts,
         pushConstantRanges |->
             IF acc.pushConstantSize # 0
             THEN <<[offset |-> 0, size |-> acc.pushConstantSize, stageFlags |-> acc.visibility]>>
             ELSE <<>>,
         outPushConstantVisibility |-> acc.visibility,
         res |-> res]

\* the assertion of the placement loop: no two non-bindless layouts share a
\* registerSpace (validatePipelineBindingLayouts rejects such input)
DistinctRegisterSpaces(inBindingLayouts) ==
    \A i, j \in 1..Len(inBindingLayouts) :
        (/\ ~inBindingLayouts[i].isBindless
         /\ ~inBindingLayouts[j].isBindless
         /\ inBindingLayouts[i].desc.registerSpace = inBindingLayouts[j].desc.registerSpace)
        => i = j

createPipelineLayout(inBindingLayouts) ==
    /\ pipeline = NoPipeline
    /\ firstNonBindlessFlag(inBindingLayouts, 1) => DistinctRegisterSpaces(inBindingLayouts)
    /\ \E res \in VkResults : pipeline' = pipelineLayoutOutputs(inBindingLayouts, res)
    /\ errors' = <<>>
    /\ UNCHANGED <<layoutRefs, layout, table, viewCache, viewsCreated, typedBound, lastCall,
                   volatileBufferStates, cmdBuf, bindInput, process>>

(***************************************************************************)
(* CommandList::bindBindingSets                                            *)
(***************************************************************************)
\* the elements of a BindingSetVector: a null pointer, a BindingSet (getDesc()
\* is not null) or a DescriptorTable (getDesc() is null)
NullBinding == [kind |-> "null", set |-> NoSet, table |-> NoTable]
SetBinding(s) == [kind |-> "set", set |-> s, table |-> NoTable]
TableBinding(t) == [kind |-> "table", set |-> NoSet, table |-> t]

NoCmdBuf == [calls |-> <<>>, referencedResources |-> <<>>]

\* the locals of bindBindingSets together with what it has done so far
NewBindState ==
    [descriptorSets |-> <<>>, nextDescriptorSetToBind |-> 0, dynamicOffsets |-> <<>>,
     calls |-> <<>>, referencedResources |-> <<>>, errors |-> <<>>, aborted |-> FALSE]

\* cmdBuf.bindDescriptorSets(bindPoint, pipelineLayout, firstSet, sets, offsets)
BindDescriptorSetsCall(st) ==
    [firstSet |-> st.nextDescriptorSetToBind,
     descriptorSetCount |-> Len(st.descriptorSets),
     descriptorSets |-> st.descriptorSets,
     dynamicOffsets |-> st.dynamicOffsets]

\* a faulty variant: an unwritten buffer is reported and contributes no offset
pushDynamicOffset_NoOffset(st, constantBuffer, states, ndebug) ==
    IF constantBuffer \notin DOMAIN states
    THEN [st EXCEPT !.errors = Append(@, "VolatileBufferNotWritten")]
    ELSE LET version == states[constantBuffer].latestVersion
             offset == MulU64(version, Buffer(constantBuffer).byteSize)
         IN  IF ~LessU64(offset, UInt32Max) /\ ~ndebug
             THEN [st EXCEPT !.aborted = TRUE]
             ELSE [st EXCEPT !.dynamicOffsets = Append(@, TruncU32(offset))]

\* a faulty variant: the offset is the buffer size whatever the version
pushDynamicOffset_NoVersion(st, constantBuffer, states, ndebug) ==
    IF constantBuffer \notin DOMAIN states
    THEN [st EXCEPT !.errors = Append(@, "VolatileBufferNotWritten"),
                    !.dynamicOffsets = Append(@, U64(0))]
    ELSE LET offset == Buffer(constantBuffer).byteSize
         IN  IF ~LessU64(offset, UInt32Max) /\ ~ndebug
             THEN [st EXCEPT !.aborted = TRUE]
             ELSE [st EXCEPT !.dynamicOffsets = Append(@, TruncU32(offset))]

\* the dynamic offset of one volatile constant buffer of a bound BindingSet;
\* states is m_VolatileBufferStates, ndebug whether assert is compiled out
pushDynamicOffset(st, constantBuffer, states, ndebug) ==
    IF constantBuffer \notin DOMAIN states
    THEN [st EXCEPT !.errors = Append(@, "VolatileBufferNotWritten"),
                    !.dynamicOffsets = Append(@, U64(0))]
    ELSE LET version == states[constantBuffer].latestVersion
             offset == MulU64(version, Buffer(constantBuffer).byteSize)
         IN  IF ~LessU64(offset, UInt32Max) /\ ~ndebug
             THEN [st EXCEPT !.aborted = TRUE]
             ELSE [st EXCEPT !.dynamicOffsets = Append(@, TruncU32(offset))]

\* a variant that passes the offset of the first volatile buffer only
volatileOffsetsLoop_FirstOnly(st, buffers, k, states, ndebug) ==
    IF Len(buffers) = 0 THEN st
    ELSE pushDynamicOffset(st, buffers[1], states, ndebug)

RECURSIVE volatileOffsetsLoop(_, _, _, _, _)
volatileOffsetsLoop(st, buffers, k, states, ndebug) ==
    IF k > Len(buffers) \/ st.aborted THEN st
    ELSE volatileOffsetsLoop(pushDynamicOffset(st, buffers[k], states, ndebug),
                             buffers, k + 1, states, ndebug)

\* a variant that reads bindings at the descriptor-set position, whatever the map
resolveBindingSet_IgnoreMap(bindings, descriptorSetIdxToBindingIdx, i, garbage) ==
    IF i < Len(bindings) THEN bindings[i + 1] ELSE garbage

\* the binding set of descriptor-set position i (from 0); garbage is what a read
\* past the end of bindings yields
resolveBindingSet(bindings, descriptorSetIdxToBindingIdx, i, garbage) ==
    IF Len(descriptorSetIdxToBindingIdx) = 0
    THEN bindings[i + 1]
    ELSE IF descriptorSetIdxToBindingIdx[i + 1] # InvalidIdx
         THEN IF descriptorSetIdxToBindingIdx[i + 1] < Len(bindings)
              THEN bindings[descriptorSetIdxToBindingIdx[i + 1] + 1]
              ELSE garbage
         ELSE NullBinding

\* a faulty variant: a hole does not flush the pending run
bindStep_NoFlush(st, bindingSetHandle, i, states, ndebug) ==
    IF bindingSetHandle.kind = "null"
    THEN IF Len(st.descriptorSets) > 0
         THEN st
         ELSE [st EXCEPT !.nextDescriptorSetToBind = i + 1]
    ELSE IF bindingSetHandle.kind = "set"
    THEN LET bindingSet == bindingSetHandle.set
             st1 == [st EXCEPT !.descriptorSets = Append(@, bindingSet.descriptorSet)]
             st2 == volatileOffsetsLoop(st1, bindingSet.volatileConstantBuffers, 1, states, ndebug)
         IN  IF ~st2.aborted /\ bindingSet.desc.trackLiveness
             THEN [st2 EXCEPT !.referencedResources = Append(@, bindingSetHandle)]
             ELSE st2
    ELSE [st EXCEPT !.descriptorSets = Append(@, bindingSetHandle.table.descriptorSet)]

\* one iteration of the loop over the descriptor-set positions
bindStep(st, bindingSetHandle, i, states, ndebug) ==
    IF bindingSetHandle.kind = "null"
    THEN IF Len(st.descriptorSets) > 0
         THEN [st EXCEPT !.calls = Append(@, BindDescriptorSetsCall(st)),
                          !.descriptorSets = <<>>,
                          !.dynamicOffsets = <<>>,
                          !.nextDescriptorSetToBind = i + 1]
         ELSE [st EXCEPT !.nextDescriptorSetToBind = i + 1]
    ELSE IF bindingSetHandle.kind = "set"
    THEN LET bindingSet == bindingSetHandle.set
             st1 == [st EXCEPT !.descriptorSets = Append(@, bindingSet.descriptorSet)]
             st2 == volatileOffsetsLoop(st1, bindingSet.volatileConstantBuffers, 1, states, ndebug)
         IN  IF ~st2.aborted /\ bindingSet.desc.trackLiveness
             THEN [st2 EXCEPT !.referencedResources = Append(@, bindingSetHandle)]
             ELSE st2
    ELSE [st EXCEPT !.descriptorSets = Append(@, bindingSetHandle.table.descriptorSet)]

RECURSIVE bindLoop(_, _, _, _, _, _, _)
bindLoop(st, bindings, map, i, garbage, states, ndebug) ==
    LET numDescriptorSets == IF Len(map) = 0 THEN Len(bindings) ELSE Len(map)
    IN  IF st.aborted THEN st
        ELSE IF i >= numDescriptorSets
        THEN IF Len(st.descriptorSets) > 0
             THEN [st EXCEPT !.calls = Append(@, BindDescriptorSetsCall(st))]
             ELSE st
        ELSE bindLoop(bindStep(st, resolveBindingSet(bindings, map, i, garbage), i, states, ndebug),
                      bindings, map, i + 1, garbage, states, ndebug)

NoBindInput ==
    [called |-> FALSE, bindings |-> <<>>, descriptorSetIdxToBindingIdx |-> <<>>,
     states |-> EmptyMap]

bindBindingSets(bindings, descriptorSetIdxToBindingIdx, garbage) ==
    /\ ~process.aborted
    /\ ~bindInput.called
    /\ \E st \in {bindLoop(NewBindState, bindings, descriptorSetIdxToBindingIdx, 0, garbage,
                           volatileBufferStates, process.ndebug)} :
           /\ cmdBuf' = [calls |-> cmdBuf.calls \o st.calls,
                         referencedResources |-> cmdBuf.referencedResources \o st.referencedResources]
           /\ errors' = st.errors
           /\ process' = [process EXCEPT !.aborted = st.aborted]
           /\ bindInput' = [called |-> TRUE, bindings |-> bindings,
                            descriptorSetIdxToBindingIdx |-> descriptorSetIdxToBindingIdx,
                            states |-> volatileBufferStates]
    /\ UNCHANGED <<layoutRefs, layout, table, viewCache, viewsCreated, typedBound, lastCall,
                   pipeline, volatileBufferStates>>

(***************************************************************************)
(* CommandList::writeVolatileBuffer: the buffer gets a version in the      *)
(* command list.                                                           *)
(***************************************************************************)
writeVolatileBuffer(buffer, version) ==
    /\ ~process.aborted
    /\ ~bindInput.called
    /\ Buffer(buffer).isVolatile
    /\ volatileBufferStates' =
           IF buffer \in DOMAIN volatileBufferStates
           THEN [volatileBufferStates EXCEPT ![buffer] = [latestVersion |-> version]]
           ELSE volatileBufferStates @@ (buffer :> [latestVersion |-> version])
    /\ UNCHANGED <<layoutRefs, layout, errors, table, viewCache, viewsCreated, typedBound,
                   lastCall, pipeline, cmdBuf, bindInput, process>>

(***************************************************************************)
(* The initial state: a device and a command list that have done nothing.  *)
(***************************************************************************)
Init ==
    /\ layout = NoLayout
    /\ layoutRefs = NoRefs
    /\ errors = <<>>
    /\ table = NoTable
    /\ viewCache = [b \in BufferNames |-> EmptyMap]
    /\ viewsCreated = EmptyMap
    /\ typedBound = {}
    /\ lastCall = NoCall
    /\ pipeline = NoPipeline
    /\ volatileBufferStates = EmptyMap
    /\ cmdBuf = NoCmdBuf
    /\ bindInput = NoBindInput
    /\ process \in [ndebug : BOOLEAN, aborted : {FALSE}]

\* a build without assertions
InitRelease == Init /\ process.ndebug

(***************************************************************************)
(* Layout construction on its own: every description of the bounded input  *)
(* sets is built and baked.                                                 *)
(***************************************************************************)
\* one layout is followed from its creation: a create call reads nothing that an
\* earlier call left behind
NextLayout ==
    /\ layout = NoLayout
    /\ \/ \E desc \in BindingLayoutDescs : createBindingLayout(desc)
       \/ \E bdesc \in BindlessLayoutDescs, mutableSupported \in BOOLEAN :
              createBindlessLayout(bdesc, mutableSupported)

SpecLayout == InitRelease /\ [][NextLayout]_vars

Spec == SpecLayout

(***************************************************************************)
(* Descriptor tables and binding sets over one typed buffer: the inputs.   *)
(***************************************************************************)
SomeOrder(l) ==
    CHOOSE order \in IterationOrders(DOMAIN poolSizeMap(l.vulkanLayoutBindings, 1, EmptyMap)) : TRUE

\* a layout as createBindlessLayout / createBindingLayout return it when the
\* native creation succeeds
BakedBindless(bdesc, id) ==
    LET l == BindingLayoutFromBindlessDesc(bdesc)
    IN  bake(l, "eSuccess", SomeOrder(l), Handle("descriptorSetLayout", id))

BakedFixed(desc, id) ==
    LET l == BindingLayoutFromDesc(desc)
    IN  bake(l, "eSuccess", SomeOrder(l), Handle("descriptorSetLayout", id))

SpaceOf(type) == [slot |-> 0, type |-> type, size |-> 1]

TableLayoutDescs ==
    { [visibility |-> "All", layoutType |-> "MutableSrvUavCbv", registerSpaces |-> <<>>,
       maxCapacity |-> 4],
      [visibility |-> "All", layoutType |-> "Immutable",
       registerSpaces |-> <<SpaceOf("TypedBuffer_SRV"), SpaceOf("Sampler")>>, maxCapacity |-> 4],
      [visibility |-> "All", layoutType |-> "Immutable",
       registerSpaces |-> <<SpaceOf("TypedBuffer_SRV"), SpaceOf("TypedBuffer_SRV")>>,
       maxCapacity |-> 4],
      [visibility |-> "All", layoutType |-> "Immutable",
       registerSpaces |-> <<SpaceOf("Sampler")>>, maxCapacity |-> 0] }

Range(offset, size) == [byteOffset |-> U64(offset), byteSize |-> U64(size)]

\* BindingSetItem values
Item(slot, type, resourceHandle, format, range) ==
    [slot |-> slot, type |-> type, resourceHandle |-> resourceHandle, format |-> format,
     range |-> range, arrayElement |-> 0]

TypedRanges == {Range(0, 1632), Range(16, 480)}

TypedItems(slots, formats) ==
    {Item(slot, "TypedBuffer_SRV", "tb", format, range) :
        slot \in slots, format \in formats, range \in TypedRanges}

TableSlots == {0, 3, 4, 5}

TableItems ==
    TypedItems(TableSlots, {"UNKNOWN", "RGBA16_SINT"})
    \cup {Item(slot, "None", NullHandle, "UNKNOWN", WholeRange) : slot \in TableSlots}
    \cup {Item(slot, "Sampler", "smp", "UNKNOWN", WholeRange) : slot \in TableSlots}
    \cup {Item(slot, "ConstantBuffer", "sb", "UNKNOWN", WholeRange) : slot \in TableSlots}
    \cup {Item(slot, "Texture_SRV", "tex", "UNKNOWN", WholeRange) : slot \in TableSlots}
    \cup {Item(0, "RayTracingAccelStruct", "as", "UNKNOWN", WholeRange)}

\* below, at and above the capacities of TableLayoutDescs
ResizeValues == CapacityValues \cup {9}

NextTable ==
    \/ /\ table = NoTable
       /\ \E bdesc \in TableLayoutDescs : createDescriptorTable(BakedBindless(bdesc, 1))
    \/ /\ ~process.aborted
       /\ \E binding \in TableItems : writeDescriptorTable(binding)
    \/ \E newSize \in ResizeValues, keepContents \in BOOLEAN :
           resizeDescriptorTable(newSize, keepContents)

SpecTable == InitRelease /\ [][NextTable]_vars

(***************************************************************************)
(* Lifetime: one layout, the sets and tables created against it, and the    *)
(* handles the application drops.                                           *)
(***************************************************************************)
LifetimeFixedDescs ==
    { [DefaultDesc EXCEPT !.visibility = "All",
                          !.bindings = <<[slot |-> 0, type |-> "ConstantBuffer", size |-> 1]>>] }

LifetimeBindlessDescs == {d \in TableLayoutDescs : d.maxCapacity > 0}

LifetimeSetDescs ==
    { [bindings |-> <<>>, trackLiveness |-> FALSE],
      [bindings |-> <<Item(0, "ConstantBuffer", "sb", "UNKNOWN", WholeRange)>>,
       trackLiveness |-> FALSE],
      [bindings |-> <<Item(0, "ConstantBuffer", "sb", "UNKNOWN", WholeRange),
                      Item(1, "ConstantBuffer", NullHandle, "UNKNOWN", WholeRange),
                      Item(2, "ConstantBuffer", "sbPerm", "UNKNOWN", WholeRange)>>,
       trackLiveness |-> FALSE] }

NextLifetime ==
    \/ /\ layout = NoLayout
       /\ \E desc \in LifetimeFixedDescs : createBindingLayout(desc)
    \/ /\ layout = NoLayout
       /\ \E bdesc \in LifetimeBindlessDescs : createBindlessLayout(bdesc, TRUE)
    \/ /\ TrackedDesc(layout.desc)
       /\ Len(layoutRefs.holders) < MaxSets
       /\ \E desc \in LifetimeSetDescs : createBindingSet(desc, layout.desc)
    \/ /\ TrackedLayout(layout)
       /\ layout.isBindless
       /\ Len(layoutRefs.holders) < MaxSets
       /\ createDescriptorTable(layout)
    \/ releaseBindingLayout
    \/ \E k \in 1..MaxSets : releaseBindingSet(k)
    \/ \E k \in 1..MaxSets : releaseDescriptorTable(k)

SpecLifetime == InitRelease /\ [][NextLifetime]_vars

\* a binding set names the buffer's own format by UNKNOWN; a table write has
\* to name it
ViewSetItems == TypedItems({0}, {"UNKNOWN", "RGBA16_SINT"})

ViewTableItems == TypedItems({0}, {"RGBA32_FLOAT", "RGBA16_SINT"})

ViewSetDescs ==
    [bindings : SeqsUpTo(ViewSetItems, MaxSetItems), trackLiveness : {FALSE}]

ViewTableLayoutDescs ==
    {d \in TableLayoutDescs :
        d.maxCapacity > 0 /\ \A i \in 1..Len(d.registerSpaces) :
                                d.registerSpaces[i].type = "TypedBuffer_SRV"}

NextViews ==
    \/ /\ table = NoTable
       /\ \E bdesc \in ViewTableLayoutDescs : createDescriptorTable(BakedBindless(bdesc, 1))
    \/ \E binding \in ViewTableItems : writeDescriptorTable(binding)
    \/ \E desc \in ViewSetDescs : createBindingSet(desc, DefaultDesc)

SpecViews == InitRelease /\ [][NextViews]_vars

(***************************************************************************)
(* Pipeline-layout assembly: the inputs.                                   *)
(***************************************************************************)
CbItem == [slot |-> 0, type |-> "ConstantBuffer", size |-> 1]
PushItem == [slot |-> 0, type |-> "PushConstants", size |-> 16]

PipelineFixedDescs ==
    [visibility : {"Compute"},
     registerSpace : 0..MaxRegisterSpace,
     registerSpaceIsDescriptorSet : BOOLEAN,
     bindings : {<<CbItem>>, <<CbItem, PushItem>>},
     bindingOffsets : {DefaultDesc.bindingOffsets}]

PipelineBindlessDescs ==
    { [visibility |-> "All", layoutType |-> "MutableSrvUavCbv", registerSpaces |-> <<>>,
       maxCapacity |-> 4],
      [visibility |-> "All", layoutType |-> "Immutable",
       registerSpaces |-> <<SpaceOf("Sampler")>>, maxCapacity |-> 4] }

\* the layout objects of a sequence of descriptions; the i-th has native handle i
LayoutObjects(descs) ==
    [i \in 1..Len(descs) |->
        IF descs[i] \in PipelineBindlessDescs THEN BakedBindless(descs[i], i)
        ELSE BakedFixed(descs[i], i)]

NextPipeline ==
    /\ pipeline = NoPipeline
    /\ \E descs \in SeqsUpTo(PipelineFixedDescs \cup PipelineBindlessDescs, MaxLayouts) :
           createPipelineLayout(LayoutObjects(descs))

\* a PushConstants item of size 0 (BindingLayoutItem::PushConstants(slot, 0))
EmptyPushItem == [slot |-> 0, type |-> "PushConstants", size |-> 0]

\* layouts of either visibility with no, a 16-byte or an empty push-constant
\* block; the layouts of registerSpace 1 carry registerSpaceIsDescriptorSet
PushFixedDescs ==
    { [visibility |-> v, registerSpace |-> s, registerSpaceIsDescriptorSet |-> (s = 1),
       bindings |-> b, bindingOffsets |-> DefaultDesc.bindingOffsets] :
        v \in Visibilities, s \in {0, 1},
        b \in {<<CbItem>>, <<CbItem, PushItem>>, <<EmptyPushItem, CbItem>>} }

PushBindlessDescs ==
    { [visibility |-> "All", layoutType |-> "Immutable",
       registerSpaces |-> <<SpaceOf("Sampler")>>, maxCapacity |-> 4] }

NextPush ==
    /\ pipeline = NoPipeline
    /\ \E descs \in SeqsUpTo(PushFixedDescs \cup PushBindlessDescs, MaxLayouts) :
           createPipelineLayout(LayoutObjects(descs))

SpecPush == InitRelease /\ [][NextPush]_vars

SpecPipeline == InitRelease /\ [][NextPipeline]_vars

(***************************************************************************)
(* Binding descriptor sets: the inputs.                                    *)
(***************************************************************************)
(***************************************************************************)
(* One fixed layout and one binding set created against it.                *)
(***************************************************************************)
\* a BindingSetItem with an array element
ArrayItem(slot, type, resourceHandle, arrayElement) ==
    [Item(slot, type, resourceHandle, "UNKNOWN", WholeRange) EXCEPT !.arrayElement = arrayElement]

\* items of every type the switch of createBindingSet has a case for, with and
\* without a permanent state, with and without a resource
SetItems ==
    { ArrayItem(0, "Texture_SRV", "tex", 0),
      ArrayItem(2, "Texture_SRV", "texPerm", 1),
      ArrayItem(0, "Texture_SRV", NullHandle, 0),
      ArrayItem(0, "Texture_UAV", "tex", 1),
      ArrayItem(2, "TypedBuffer_SRV", "tb", 0),
      ArrayItem(0, "StructuredBuffer_SRV", "sb", 0),
      ArrayItem(2, "RawBuffer_UAV", "sbPerm", 1),
      ArrayItem(0, "ConstantBuffer", "sb", 1),
      ArrayItem(2, "ConstantBuffer", "sbPerm", 0),
      ArrayItem(0, "VolatileConstantBuffer", "vcbA", 0),
      ArrayItem(2, "Sampler", "smp", 1),
      ArrayItem(0, "RayTracingAccelStruct", "as", 0),
      ArrayItem(0, "PushConstants", NullHandle, 0),
      ArrayItem(0, "PushConstants", "sb", 0) }

\* the layout items a set description is written for: same types and slots
LayoutItemsOf(bindings) ==
    [i \in 1..Len(bindings) |->
        [slot |-> bindings[i].slot, type |-> bindings[i].type,
         size |-> IF bindings[i].type = "PushConstants" THEN 16 ELSE 2]]

SetLayoutDescs ==
    { [visibility |-> "All", registerSpace |-> 0, registerSpaceIsDescriptorSet |-> FALSE,
       bindings |-> LayoutItemsOf(desc.bindings), bindingOffsets |-> offsets] :
        desc \in [bindings : SeqsUpTo(SetItems, MaxSetItems)],
        offsets \in {DefaultBindingOffsets, CustomBindingOffsets} }

RECURSIVE SetItemChoices(_, _)
\* the item lists that fit the layout items from position i on
SetItemChoices(layoutItems, i) ==
    IF i > Len(layoutItems) THEN {<<>>}
    ELSE {<<item>> \o rest :
            item \in {b \in SetItems : b.slot = layoutItems[i].slot /\ b.type = layoutItems[i].type},
            rest \in SetItemChoices(layoutItems, i + 1)}

NextSet ==
    \/ /\ layout = NoLayout
       /\ \E desc \in SetLayoutDescs : createBindingLayout(desc)
    \/ /\ TrackedDesc(layout.desc)
       /\ layoutRefs.holders = <<>>
       /\ \E bindings \in SetItemChoices(layout.desc.bindings, 1) :
              createBindingSet([bindings |-> bindings, trackLiveness |-> FALSE], layout.desc)

SpecSet == InitRelease /\ [][NextSet]_vars

(***************************************************************************)
(* A pipeline layout and the binding sets bound with its index map.        *)
(***************************************************************************)
\* the vector whose i-th element was created against the i-th layout: a
\* DescriptorTable for a bindless layout, a BindingSet otherwise, with native
\* descriptor set i
SetsFor(inBindingLayouts) ==
    [i \in 1..Len(inBindingLayouts) |->
        IF inBindingLayouts[i].isBindless
        THEN TableBinding(DescriptorTableObject(inBindingLayouts[i], Handle("descriptorSet", i)))
        ELSE SetBinding(BindingSetObject(NoSetDesc, NewSetAcc(EmptyMap),
                                         Handle("descriptorSet", i)))]

\* what bindings[k] yields for k >= bindings.size()
GarbageBinding ==
    SetBinding(BindingSetObject(NoSetDesc, NewSetAcc(EmptyMap), Handle("descriptorSet", 0)))

NextCompose ==
    \/ /\ pipeline = NoPipeline
       /\ \E descs \in SeqsUpTo(PipelineFixedDescs \cup PipelineBindlessDescs, MaxLayouts) :
              createPipelineLayout(LayoutObjects(descs))
    \/ /\ pipeline # NoPipeline
       /\ pipeline.res = "eSuccess"
       /\ bindBindingSets(SetsFor(pipeline.inBindingLayouts),
                          pipeline.outDescriptorSetIdxToBindingIdx, GarbageBinding)

SpecCompose == InitRelease /\ [][NextCompose]_vars

VolatileItem(slot, buffer) == Item(slot, "VolatileConstantBuffer", buffer, "UNKNOWN", WholeRange)

\* a BindingSet as createBindingSet returns it for `bindings`
BoundSet(bindings, trackLiveness, id) ==
    BindingSetObject([bindings |-> bindings, trackLiveness |-> trackLiveness],
                     createBindingSetLoop(NewSetAcc([b \in BufferNames |-> EmptyMap]),
                                          DefaultDesc, bindings, 1),
                     Handle("descriptorSet", id))

SetA == BoundSet(<<VolatileItem(0, "vcbA"), VolatileItem(1, "vcbB")>>, TRUE, 1)
SetB == BoundSet(<<Item(0, "ConstantBuffer", "sb", "UNKNOWN", WholeRange),
                   VolatileItem(2, NullHandle),
                   VolatileItem(1, "vcbB")>>, FALSE, 2)
TableT == DescriptorTableObject(BakedBindless(CHOOSE d \in TableLayoutDescs :
                                    d.layoutType = "MutableSrvUavCbv", 3),
                                Handle("descriptorSet", 3))

BindingHandles == {NullBinding, SetBinding(SetA), SetBinding(SetB), TableBinding(TableT)}

VolatileBuffers == {b \in BufferNames : Buffer(b).isVolatile}

\* the index maps createPipelineLayout gives for n input layouts: every input
\* index sits at exactly one position, the other positions are holes
IndexMaps(n) ==
    {m \in SeqsUpTo({InvalidIdx} \cup 0..(n - 1), MaxSets) :
        /\ Len(m) > 0
        /\ \A k \in 0..(n - 1) : \E i \in 1..Len(m) : m[i] = k
        /\ \A i, j \in 1..Len(m) : (m[i] = m[j] /\ m[i] # InvalidIdx) => i = j}

\* the index maps for every vector length
IndexMapsByLength == [n \in 0..MaxBindings |-> IndexMaps(n)]

NextBind ==
    \/ /\ ~bindInput.called
       /\ \E buffer \in VolatileBuffers, version \in 0..MaxVersion :
              writeVolatileBuffer(buffer, version)
    \/ /\ ~bindInput.called
       /\ \E bindings \in SeqsUpTo(BindingHandles, MaxBindings) :
            \E map \in {<<>>} \cup IndexMapsByLength[Len(bindings)] :
              bindBindingSets(bindings, map, NullBinding)

SpecBind == Init /\ [][NextBind]_vars

(***************************************************************************)
(* Properties of layout construction.                                      *)
(***************************************************************************)
RECURSIVE SumCounts(_, _, _)
\* sum of descriptorCount over the schema entries i.. of native type t
SumCounts(bindings, i, t) ==
    IF i > Len(bindings) THEN 0
    ELSE (IF bindings[i].descriptorType = t THEN bindings[i].descriptorCount ELSE 0)
         + SumCounts(bindings, i + 1, t)

NativeTypes == {convertResourceType(t) : t \in ResourceTypes} \cup {"eMutableEXT"}

\* the resource class of a type, and the base offset the policy gives that class
ResourceClass(type) ==
    CASE type \in {"Texture_SRV", "TypedBuffer_SRV", "StructuredBuffer_SRV", "RawBuffer_SRV",
                   "RayTracingAccelStruct"} -> "shaderResource"
      [] type \in {"Texture_UAV", "TypedBuffer_UAV", "StructuredBuffer_UAV", "RawBuffer_UAV"} ->
             "unorderedAccess"
      [] type \in {"ConstantBuffer", "VolatileConstantBuffer"} -> "constantBuffer"
      [] type = "Sampler" -> "sampler"
      [] OTHER -> "none"

baseOffsetFor(bindingOffsets, type) ==
    CASE ResourceClass(type) = "shaderResource" -> bindingOffsets.shaderResource
      [] ResourceClass(type) = "unorderedAccess" -> bindingOffsets.unorderedAccess
      [] ResourceClass(type) = "constantBuffer" -> bindingOffsets.constantBuffer
      [] ResourceClass(type) = "sampler" -> bindingOffsets.sampler
      [] OTHER -> 0

NonPushItems(bindings) == SelectSeq(bindings, LAMBDA b : b.type # "PushConstants")

FixedLayoutBuilt == layout.bakeResult # "none" /\ ~layout.isBindless
BindlessLayoutBuilt == layout.bakeResult # "none" /\ layout.isBindless

\* C7: a fixed layout's schema has exactly one entry per non-PushConstants item,
\* in input order, at binding location baseOffsetFor(type) + slot, with
\* count = item.size and the stage mask of the desc's visibility; PushConstants
\* items produce no entry.
C7_FixedSchema ==
    FixedLayoutBuilt =>
        LET items == NonPushItems(layout.desc.bindings)
            schema == layout.vulkanLayoutBindings
        IN  /\ Len(schema) = Len(items)
            /\ \A k \in 1..Len(items) :
                 /\ schema[k].binding =
                        baseOffsetFor(layout.desc.bindingOffsets, items[k].type) + items[k].slot
                 /\ schema[k].descriptorCount = items[k].size
                 /\ schema[k].descriptorType = convertResourceType(items[k].type)
                 /\ schema[k].stageFlags =
                        convertShaderTypeToShaderStageFlagBits(layout.desc.visibility)

\* a PushConstants item followed by a UAV item at slot 2 under the default policy
C7_Witness ==
    /\ FixedLayoutBuilt
    /\ Len(layout.desc.bindings) = 2
    /\ layout.desc.bindings[1].type = "PushConstants"
    /\ layout.desc.bindings[2].type = "RawBuffer_UAV"
    /\ Len(layout.vulkanLayoutBindings) = 1
    /\ layout.vulkanLayoutBindings[1].binding = 386

\* C8: after a successful bake the pool-size table has at most one entry per
\* native descriptor type, each entry's count is the sum of descriptorCount over
\* the schema entries of that type, and no entry has count 0.
C8_PoolSizes ==
    layout.bakeResult = "eSuccess" =>
        LET pool == layout.descriptorPoolSizeInfo
            schema == layout.vulkanLayoutBindings
        IN  /\ \A i, j \in 1..Len(pool) : pool[i].type = pool[j].type => i = j
            /\ \A i \in 1..Len(pool) :
                 /\ pool[i].descriptorCount > 0
                 /\ pool[i].descriptorCount = SumCounts(schema, 1, pool[i].type)
            /\ \A t \in NativeTypes :
                 SumCounts(schema, 1, t) > 0 => \E i \in 1..Len(pool) : pool[i].type = t

\* two schema entries of one native type are summed into one pool entry
C8_Witness ==
    /\ layout.bakeResult = "eSuccess"
    /\ Len(layout.vulkanLayoutBindings) = 2
    /\ layout.vulkanLayoutBindings[1].descriptorType = "eStorageBuffer"
    /\ layout.vulkanLayoutBindings[2].descriptorType = "eStorageBuffer"
    /\ layout.descriptorPoolSizeInfo = <<[type |-> "eStorageBuffer", descriptorCount |-> 6]>>

\* C9: an Immutable bindless layout with N register spaces has exactly N schema
\* entries, the k-th at binding location k (from 0) with the native type of the
\* k-th register space and count = maxCapacity.
C9_ImmutableSchema ==
    (BindlessLayoutBuilt /\ layout.bindlessDesc.layoutType = "Immutable") =>
        LET spaces == layout.bindlessDesc.registerSpaces
            schema == layout.vulkanLayoutBindings
        IN  /\ Len(schema) = Len(spaces)
            /\ \A k \in 1..Len(spaces) :
                 /\ schema[k].binding = k - 1
                 /\ schema[k].descriptorType = convertResourceType(spaces[k].type)
                 /\ schema[k].descriptorCount = layout.bindlessDesc.maxCapacity

C9_Witness ==
    /\ BindlessLayoutBuilt
    /\ layout.bindlessDesc.layoutType = "Immutable"
    /\ layout.bindlessDesc.maxCapacity = 4
    /\ Len(layout.bindlessDesc.registerSpaces) = 2
    /\ layout.bindlessDesc.registerSpaces[1].type = "Texture_SRV"
    /\ layout.bindlessDesc.registerSpaces[2].type = "Sampler"
    /\ layout.vulkanLayoutBindings[2].binding = 1
    /\ layout.vulkanLayoutBindings[2].descriptorType = "eSampler"

\* C10: a mutable bindless layout has exactly one schema entry, at binding
\* location 0, of the mutable descriptor type with count = maxCapacity, however
\* many register spaces the description supplies.
C10_MutableSchema ==
    (BindlessLayoutBuilt /\ layout.bindlessDesc.layoutType # "Immutable") =>
        /\ Len(layout.vulkanLayoutBindings) = 1
        /\ layout.vulkanLayoutBindings[1].binding = 0
        /\ layout.vulkanLayoutBindings[1].descriptorCount = layout.bindlessDesc.maxCapacity
        /\ layout.vulkanLayoutBindings[1].descriptorType = "eMutableEXT"

\* a mutable layout described with two register spaces
C10_Witness ==
    /\ BindlessLayoutBuilt
    /\ layout.bindlessDesc.layoutType = "MutableCounters"
    /\ Len(layout.bindlessDesc.registerSpaces) = 2
    /\ layout.bindlessDesc.maxCapacity = 4
    /\ Len(layout.vulkanLayoutBindings) = 1

(***************************************************************************)
(* bindBindingSets: runs, holes and dynamic offsets.                       *)
(***************************************************************************)
\* the call returned: bindBindingSets ran to its end
BindReturned == bindInput.called /\ ~process.aborted

NumPositions ==
    IF Len(bindInput.descriptorSetIdxToBindingIdx) = 0
    THEN Len(bindInput.bindings)
    ELSE Len(bindInput.descriptorSetIdxToBindingIdx)

\* the handle the caller means for descriptor-set position p (from 0)
HandleAt(p) ==
    IF Len(bindInput.descriptorSetIdxToBindingIdx) = 0
    THEN bindInput.bindings[p + 1]
    ELSE IF bindInput.descriptorSetIdxToBindingIdx[p + 1] = InvalidIdx
         THEN NullBinding
         ELSE bindInput.bindings[bindInput.descriptorSetIdxToBindingIdx[p + 1] + 1]

IsHole(p) == HandleAt(p).kind = "null"

NativeSetAt(p) ==
    IF HandleAt(p).kind = "set" THEN HandleAt(p).set.descriptorSet
    ELSE HandleAt(p).table.descriptorSet

\* the maximal runs <<first, last>> of non-hole positions
MaximalRuns ==
    {r \in (0..(NumPositions - 1)) \X (0..(NumPositions - 1)) :
        /\ r[1] <= r[2]
        /\ \A p \in r[1]..r[2] : ~IsHole(p)
        /\ (r[1] = 0 \/ IsHole(r[1] - 1))
        /\ (r[2] = NumPositions - 1 \/ IsHole(r[2] + 1))}

\* C1: bindBindingSets issues exactly one native bind call per maximal run of
\* non-hole descriptor-set positions, in increasing position order, with
\* firstSet the first position of the run, count the run length and the native
\* sets of the run's positions in order; no call covers a hole and no call is
\* issued for an empty run.
C1_OneCallPerRun ==
    BindReturned =>
        LET calls == cmdBuf.calls
        IN  /\ Len(calls) = Cardinality(MaximalRuns)
            /\ \A k \in 1..Len(calls) :
                 /\ calls[k].descriptorSetCount > 0
                 /\ calls[k].descriptorSetCount = Len(calls[k].descriptorSets)
                 /\ <<calls[k].firstSet, calls[k].firstSet + calls[k].descriptorSetCount - 1>>
                        \in MaximalRuns
                 /\ \A j \in 1..calls[k].descriptorSetCount :
                        calls[k].descriptorSets[j] = NativeSetAt(calls[k].firstSet + j - 1)
            /\ \A k \in 1..(Len(calls) - 1) : calls[k].firstSet < calls[k + 1].firstSet

\* [S0, null, S2] in direct mode: the two calls {0, 1} and {2, 1}
C1_Witness ==
    /\ BindReturned
    /\ bindInput.descriptorSetIdxToBindingIdx = <<>>
    /\ Len(bindInput.bindings) = 3
    /\ bindInput.bindings[1].kind = "set"
    /\ bindInput.bindings[2].kind = "null"
    /\ bindInput.bindings[3].kind = "table"
    /\ Len(cmdBuf.calls) = 2
    /\ cmdBuf.calls[1].firstSet = 0 /\ cmdBuf.calls[1].descriptorSetCount = 1
    /\ cmdBuf.calls[2].firstSet = 2 /\ cmdBuf.calls[2].descriptorSetCount = 1

RECURSIVE VolatileRefs(_, _)
\* the volatile constant buffers of the BindingSets at positions p..last, in order
VolatileRefs(p, last) ==
    IF p > last THEN <<>>
    ELSE (IF HandleAt(p).kind = "set" THEN HandleAt(p).set.volatileConstantBuffers ELSE <<>>)
         \o VolatileRefs(p + 1, last)

CallRefs(call) == VolatileRefs(call.firstSet, call.firstSet + call.descriptorSetCount - 1)

\* the buffers the command list holds a version for at the time of the call
Written(buffer) == buffer \in DOMAIN bindInput.states

UnwrittenRefs ==
    LET refs == VolatileRefs(0, NumPositions - 1)
    IN  {k \in 1..Len(refs) : ~Written(refs[k])}

\* C3: binding a BindingSet with a volatile constant buffer that has no version
\* in the command list reports one diagnostic per such buffer, contributes the
\* dynamic offset 0 for it, and recording continues: the set is in its bind
\* call and every other buffer and set is processed.
C3_UnwrittenVolatile ==
    BindReturned =>
        /\ Len(errors) = Cardinality(UnwrittenRefs)
        /\ \A e \in 1..Len(errors) : errors[e] = "VolatileBufferNotWritten"
        /\ \A p \in 0..(NumPositions - 1) :
             ~IsHole(p) =>
                \E k \in 1..Len(cmdBuf.calls) :
                    /\ cmdBuf.calls[k].firstSet <= p
                    /\ p < cmdBuf.calls[k].firstSet + cmdBuf.calls[k].descriptorSetCount
                    /\ cmdBuf.calls[k].descriptorSets[p - cmdBuf.calls[k].firstSet + 1]
                           = NativeSetAt(p)
        /\ \A k \in 1..Len(cmdBuf.calls) :
             LET refs == CallRefs(cmdBuf.calls[k])
             IN  /\ Len(cmdBuf.calls[k].dynamicOffsets) = Len(refs)
                 /\ \A r \in 1..Len(refs) :
                      ~Written(refs[r]) => cmdBuf.calls[k].dynamicOffsets[r] = U64(0)

\* SetA = [vcbA, vcbB] followed by SetB = [vcbB]: vcbA has no version, vcbB has
\* one; one diagnostic, offset 0 for vcbA, all three offsets passed
C3_Witness ==
    /\ BindReturned
    /\ bindInput.bindings = <<SetBinding(SetA), SetBinding(SetB)>>
    /\ bindInput.descriptorSetIdxToBindingIdx = <<>>
    /\ ~Written("vcbA") /\ Written("vcbB")
    /\ Len(errors) = 1
    /\ Len(cmdBuf.calls) = 1
    /\ cmdBuf.calls[1].descriptorSetCount = 2
    /\ Len(cmdBuf.calls[1].dynamicOffsets) = 3
    /\ cmdBuf.calls[1].dynamicOffsets[1] = U64(0)

\* v * byteSize, which is below 2^64 for every buffer and version considered
ExactOffset(buffer) ==
    MulU64(bindInput.states[buffer].latestVersion, Buffer(buffer).byteSize)

OffsetOutOfRange ==
    \E p \in 0..(NumPositions - 1) :
        /\ HandleAt(p).kind = "set"
        /\ \E r \in 1..Len(HandleAt(p).set.volatileConstantBuffers) :
             LET buffer == HandleAt(p).set.volatileConstantBuffers[r]
             IN  Written(buffer) /\ ~LessU64(ExactOffset(buffer), UInt32Max)

BoundAt(p) ==
    {cmdBuf.calls[k].descriptorSets[p - cmdBuf.calls[k].firstSet + 1] :
        k \in {c \in 1..Len(cmdBuf.calls) :
                  /\ cmdBuf.calls[c].firstSet <= p
                  /\ p < cmdBuf.calls[c].firstSet + cmdBuf.calls[c].descriptorSetCount}}

\* the descriptor-set indices at which input layout i sits in the pipeline layout
PositionsOf(i) ==
    {p \in 0..(Len(pipeline.outBindingLayouts) - 1) :
        pipeline.outBindingLayouts[p + 1] = pipeline.inBindingLayouts[i]}

HolePositions ==
    {p \in 0..(Len(pipeline.outBindingLayouts) - 1) : pipeline.outBindingLayouts[p + 1] = NoLayout}

Composed ==
    /\ pipeline # NoPipeline
    /\ BindReturned
    /\ bindInput.descriptorSetIdxToBindingIdx = pipeline.outDescriptorSetIdxToBindingIdx
    /\ Len(bindInput.bindings) = Len(pipeline.inBindingLayouts)

\* C17: with the index map createPipelineLayout returned and a vector whose
\* i-th element is the set or table created against input layout i, every
\* layout sits at one index and bindBindingSets binds there the native set of
\* element i; no call covers a hole; every index is bound at most once; and
\* what a read past the end of the vector would yield is bound nowhere.
C17_SetsAtLayoutPositions ==
    Composed =>
        /\ \A i \in 1..Len(pipeline.inBindingLayouts) :
             /\ Cardinality(PositionsOf(i)) = 1
             /\ \A p \in PositionsOf(i) : BoundAt(p) = {Handle("descriptorSet", i)}
        /\ \A p \in HolePositions : BoundAt(p) = {}
        /\ \A k \in 1..Len(cmdBuf.calls) :
             /\ cmdBuf.calls[k].firstSet + cmdBuf.calls[k].descriptorSetCount
                    <= Len(pipeline.outBindingLayouts)
             /\ \A j \in 1..Len(cmdBuf.calls[k].descriptorSets) :
                    cmdBuf.calls[k].descriptorSets[j] # GarbageBinding.set.descriptorSet

\* inputs {bindless}, {registerSpace 2, indexed}, {registerSpace 0}: the map
\* [2, 0xFFFFFFFF, 1, 0]; set 3 is bound at index 0, set 2 at index 2 and
\* table 1 at index 3, in two calls around the hole at index 1
C17_Witness ==
    /\ Composed
    /\ Len(pipeline.inBindingLayouts) = 3
    /\ pipeline.outDescriptorSetIdxToBindingIdx = <<2, InvalidIdx, 1, 0>>
    /\ HolePositions = {1}
    /\ Len(cmdBuf.calls) = 2
    /\ BoundAt(0) = {Handle("descriptorSet", 3)}
    /\ BoundAt(2) = {Handle("descriptorSet", 2)}
    /\ BoundAt(3) = {Handle("descriptorSet", 1)}

(***************************************************************************)
(* The dynamic offsets of a bind call, from the descriptions of the sets.   *)
(***************************************************************************)
\* the buffers of the VolatileConstantBuffer items of a description, in
\* declaration order; withNull keeps the items whose handle is null
DescVolatile(desc, withNull) ==
    LET sel == SelectSeq(desc.bindings,
                   LAMBDA b : /\ b.type = "VolatileConstantBuffer"
                              /\ (withNull \/ b.resourceHandle # NullHandle))
    IN  [i \in 1..Len(sel) |-> sel[i].resourceHandle]

RECURSIVE DescRefs(_, _, _)
\* the concatenation over the positions p..last: BindingSets give their
\* volatile items, DescriptorTables nothing
DescRefs(p, last, withNull) ==
    IF p > last THEN <<>>
    ELSE (IF HandleAt(p).kind = "set" THEN DescVolatile(HandleAt(p).set.desc, withNull) ELSE <<>>)
         \o DescRefs(p + 1, last, withNull)

\* the 32-bit offset the call passes for a buffer: 0 without a version
PassedOffset(buffer) ==
    IF Written(buffer) THEN TruncU32(ExactOffset(buffer)) ELSE U64(0)

\* C16 as claimed: the dynamic offsets of every bind call are one offset per
\* VolatileConstantBuffer item of the descriptions of the BindingSets of its
\* run, in position and declaration order.
C16_OffsetPerItem ==
    BindReturned =>
        \A k \in 1..Len(cmdBuf.calls) :
            Len(cmdBuf.calls[k].dynamicOffsets) =
                Len(DescRefs(cmdBuf.calls[k].firstSet,
                             cmdBuf.calls[k].firstSet + cmdBuf.calls[k].descriptorSetCount - 1,
                             TRUE))

\* C16: the dynamic offsets of every bind call are exactly the offsets of the
\* VolatileConstantBuffer items with a non-null handle of the descriptions of
\* the BindingSets of its run, in position order and, within a set, in
\* declaration order; a null-handle item adds no offset, a DescriptorTable
\* adds none, and no offset of another run is in the list.
C16_OffsetPerBoundItem ==
    BindReturned =>
        \A k \in 1..Len(cmdBuf.calls) :
            LET exp == DescRefs(cmdBuf.calls[k].firstSet,
                                cmdBuf.calls[k].firstSet + cmdBuf.calls[k].descriptorSetCount - 1,
                                FALSE)
            IN  /\ Len(cmdBuf.calls[k].dynamicOffsets) = Len(exp)
                /\ \A r \in 1..Len(exp) :
                     cmdBuf.calls[k].dynamicOffsets[r] = PassedOffset(exp[r])

\* [SetA, null, SetB] with vcbA at version 1 and vcbB at version 0: the call
\* of the first run passes the offsets of vcbA and vcbB, the call of the second
\* run only the one of vcbB, and nothing for the null-handle item of SetB
C16_Witness ==
    /\ BindReturned
    /\ bindInput.bindings = <<SetBinding(SetA), NullBinding, SetBinding(SetB)>>
    /\ bindInput.descriptorSetIdxToBindingIdx = <<>>
    /\ Written("vcbA") /\ bindInput.states["vcbA"].latestVersion = 1
    /\ Written("vcbB") /\ bindInput.states["vcbB"].latestVersion = 0
    /\ Len(cmdBuf.calls) = 2
    /\ cmdBuf.calls[1].dynamicOffsets = <<U64(256), U64(0)>>
    /\ cmdBuf.calls[2].dynamicOffsets = <<U64(0)>>
    /\ Len(DescVolatile(SetB.desc, TRUE)) = 2

(***************************************************************************)
(* createPipelineLayout in indexed mode.                                   *)
(***************************************************************************)
NonBindlessInputs ==
    {i \in 1..Len(pipeline.inBindingLayouts) : ~pipeline.inBindingLayouts[i].isBindless}

BindlessInputs ==
    {i \in 1..Len(pipeline.inBindingLayouts) : pipeline.inBindingLayouts[i].isBindless}

IndexedMode ==
    /\ pipeline # NoPipeline
    /\ \E i \in NonBindlessInputs :
         /\ \A j \in NonBindlessInputs : i <= j
         /\ pipeline.inBindingLayouts[i].desc.registerSpaceIsDescriptorSet

RegisterSpaceOf(i) == pipeline.inBindingLayouts[i].desc.registerSpace

\* R = 1 + the largest registerSpace of a non-bindless input layout
RegularPositions ==
    1 + (CHOOSE m \in {RegisterSpaceOf(i) : i \in NonBindlessInputs} :
            \A i \in NonBindlessInputs : RegisterSpaceOf(i) <= m)

\* the number of bindless input layouts up to and including input i
BindlessRank(i) == Cardinality({j \in BindlessInputs : j <= i})

\* C2: in indexed mode the output has R regular positions followed by one
\* position per bindless layout in input order; non-bindless input i sits at
\* position registerSpace(i) and the map holds i there; a regular position no
\* layout occupies is a hole: map entry 0xFFFFFFFF, no layout, and the shared
\* empty descriptor-set layout as its native slot; each bindless position maps
\* to that layout's input index.
C2_IndexedLayout ==
    IndexedMode =>
        LET in == pipeline.inBindingLayouts
            map == pipeline.outDescriptorSetIdxToBindingIdx
            out == pipeline.outBindingLayouts
            native == pipeline.descriptorSetLayouts
            R == RegularPositions
        IN  /\ Len(map) = R + Cardinality(BindlessInputs)
            /\ Len(out) = Len(map)
            /\ Len(native) = Len(map)
            /\ \A i \in NonBindlessInputs :
                 /\ map[RegisterSpaceOf(i) + 1] = i - 1
                 /\ out[RegisterSpaceOf(i) + 1] = in[i]
                 /\ native[RegisterSpaceOf(i) + 1] = in[i].descriptorSetLayout
            /\ \A p \in 1..R :
                 (\A i \in NonBindlessInputs : RegisterSpaceOf(i) + 1 # p) =>
                     /\ map[p] = InvalidIdx
                     /\ out[p] = NoLayout
                     /\ native[p] = EmptyDescriptorSetLayout
            /\ \A i \in BindlessInputs :
                 /\ map[R + BindlessRank(i)] = i - 1
                 /\ out[R + BindlessRank(i)] = in[i]
                 /\ native[R + BindlessRank(i)] = in[i].descriptorSetLayout

\* {A: registerSpace 0}, {B: registerSpace 2}: the map [0, 0xFFFFFFFF, 1] with
\* the empty layout at position 1
C2_Witness ==
    /\ IndexedMode
    /\ Len(pipeline.inBindingLayouts) = 2
    /\ NonBindlessInputs = {1, 2}
    /\ RegisterSpaceOf(1) = 0
    /\ RegisterSpaceOf(2) = 2
    /\ pipeline.outDescriptorSetIdxToBindingIdx = <<0, InvalidIdx, 1>>
    /\ pipeline.descriptorSetLayouts[2] = EmptyDescriptorSetLayout

(***************************************************************************)
(* createPipelineLayout: the push-constant range.                          *)
(***************************************************************************)
\* the fixed input layouts that hold a PushConstants item
PushOwners ==
    {i \in NonBindlessInputs :
        \E b \in 1..Len(pipeline.inBindingLayouts[i].desc.bindings) :
            pipeline.inBindingLayouts[i].desc.bindings[b].type = "PushConstants"}

\* the sizes of the PushConstants items of input layout i
PushSizes(i) ==
    {pipeline.inBindingLayouts[i].desc.bindings[b].size :
        b \in {c \in 1..Len(pipeline.inBindingLayouts[i].desc.bindings) :
                  pipeline.inBindingLayouts[i].desc.bindings[c].type = "PushConstants"}}

OwnerVisibility(i) ==
    convertShaderTypeToShaderStageFlagBits(pipeline.inBindingLayouts[i].desc.visibility)

PipelineCreated == pipeline # NoPipeline

\* C12 as claimed: with exactly one fixed layout holding a PushConstants item,
\* one range (offset 0, the item's size, the owner's visibility) is passed and
\* that visibility is returned; with none, zero ranges and empty visibility.
C12_OneRangePerOwner ==
    PipelineCreated =>
        /\ \A i \in PushOwners :
             PushOwners = {i} =>
                 /\ Len(pipeline.pushConstantRanges) = 1
                 /\ pipeline.pushConstantRanges[1].offset = 0
                 /\ pipeline.pushConstantRanges[1].size \in PushSizes(i)
                 /\ pipeline.pushConstantRanges[1].stageFlags = OwnerVisibility(i)
                 /\ pipeline.outPushConstantVisibility = OwnerVisibility(i)
        /\ PushOwners = {} =>
                 /\ pipeline.pushConstantRanges = <<>>
                 /\ pipeline.outPushConstantVisibility = "eNone"

\* C12: with exactly one fixed layout holding a PushConstants item, the owner's
\* visibility is returned; one range (offset 0, the item's size, the owner's
\* visibility) is passed when the item's size is not 0 and no range when it
\* is 0; with no PushConstants item in a fixed layout, zero ranges are passed
\* and the returned visibility is empty; bindless layouts add no range.
C12_RangeUnlessEmpty ==
    PipelineCreated =>
        /\ \A i \in PushOwners :
             PushOwners = {i} =>
                 /\ pipeline.outPushConstantVisibility = OwnerVisibility(i)
                 /\ PushSizes(i) # {0} =>
                        /\ Len(pipeline.pushConstantRanges) = 1
                        /\ pipeline.pushConstantRanges[1].offset = 0
                        /\ pipeline.pushConstantRanges[1].size \in PushSizes(i)
                        /\ pipeline.pushConstantRanges[1].stageFlags = OwnerVisibility(i)
                 /\ PushSizes(i) = {0} => pipeline.pushConstantRanges = <<>>
        /\ PushOwners = {} =>
                 /\ pipeline.pushConstantRanges = <<>>
                 /\ pipeline.outPushConstantVisibility = "eNone"

\* a Compute layout without push constants, an All layout with a 16-byte block
\* and a bindless layout: one range of 16 bytes for all stages
C12_Witness ==
    /\ PipelineCreated
    /\ Len(pipeline.inBindingLayouts) = 3
    /\ PushOwners = {2}
    /\ BindlessInputs = {3}
    /\ pipeline.inBindingLayouts[1].desc.visibility = "Compute"
    /\ pipeline.inBindingLayouts[2].desc.visibility = "All"
    /\ pipeline.pushConstantRanges =
           <<[offset |-> 0, size |-> 16, stageFlags |-> OwnerVisibility(2)]>>
    /\ pipeline.outPushConstantVisibility # "eNone"

(***************************************************************************)
(* writeDescriptorTable: rejected and empty writes.                        *)
(***************************************************************************)
TableWritten == lastCall.op = "writeDescriptorTable"

\* C5: writeDescriptorTable returns false and issues no native call (no view
\* creation, no descriptor update) when binding.slot >= the table's capacity,
\* whatever the binding type; for a binding of type None at a slot below the
\* capacity it returns true and issues no native call either.
C5_RejectedWrites ==
    TableWritten =>
        /\ lastCall.args.slot >= table.capacity =>
               (lastCall.ret = FALSE /\ lastCall.calls = <<>>)
        /\ (lastCall.args.slot < table.capacity /\ lastCall.args.type = "None") =>
               (lastCall.ret = TRUE /\ lastCall.calls = <<>>)
        /\ (lastCall.args.slot < table.capacity /\ lastCall.args.type # "None") =>
               lastCall.ret = TRUE

\* a typed-buffer write at the slot equal to the capacity 4 of the table
C5_Witness ==
    /\ TableWritten
    /\ table.capacity = 4
    /\ lastCall.args.slot = 4
    /\ lastCall.args.type = "TypedBuffer_SRV"
    /\ lastCall.ret = FALSE
    /\ lastCall.calls = <<>>

(***************************************************************************)
(* The buffer view cache.                                                  *)
(***************************************************************************)
\* the triples bound as typed buffers of `buffer` so far
BoundTriples(buffer) == {t \in typedBound : t.buffer = buffer}

\* the texel-buffer writes of the last operation
RECURSIVE TexelWrites(_, _)
TexelWrites(calls, i) ==
    IF i > Len(calls) THEN <<>>
    ELSE SelectSeq(calls[i].writes, LAMBDA w : w.kind = "texel") \o TexelWrites(calls, i + 1)

\* C6 as claimed: a buffer's view cache holds exactly one entry per distinct
\* resolved (byteOffset, byteSize, native format) triple bound as a typed
\* buffer, the native view creation was issued exactly once per distinct
\* triple, and every typed-buffer descriptor refers to the view of its triple.
C6_OneViewPerTriple ==
    /\ \A buffer \in BufferNames :
         Cardinality(DOMAIN viewCache[buffer]) = Cardinality(BoundTriples(buffer))
    /\ \A t \in typedBound : t \in DOMAIN viewsCreated /\ viewsCreated[t] = 1
    /\ LET writes == TexelWrites(lastCall.calls, 1)
       IN  \A k \in 1..Len(writes) :
             /\ writes[k].view.byteOffset = writes[k].range.byteOffset
             /\ writes[k].view.byteSize = writes[k].range.byteSize

(***************************************************************************)
(* Failure of the native layout creation.                                  *)
(***************************************************************************)
LayoutCreated == lastCall.op \in {"createBindingLayout", "createBindlessLayout"}

BakeFailed == LayoutCreated /\ layout.bakeResult # "eSuccess"

\* C11 as claimed: when createDescriptorSetLayout fails inside bake(), the
\* caller of createBindingLayout / createBindlessLayout is told: it gets a null
\* handle or a message about the failed creation; the native creation is
\* called once only.
C11_FailureSurfaced ==
    BakeFailed =>
        /\ Len(lastCall.calls) = 1
        /\ \/ lastCall.ret = FALSE
           \/ \E e \in 1..Len(errors) : errors[e] = "CreateDescriptorSetLayoutFailed"

(***************************************************************************)
(* Lifetime of the layout.                                                 *)
(***************************************************************************)
\* the BindingSets and DescriptorTables created against the layout that exist
LiveHolders == 1..Len(layoutRefs.holders)

\* C13: while a BindingSet or DescriptorTable created against the layout
\* exists, it holds a strong reference to the layout, and neither the layout
\* nor its native descriptor-set layout has been destroyed.
C13_LayoutOutlivesHolders ==
    /\ \A k \in LiveHolders : layoutRefs.holders[k].strong
    /\ LiveHolders # {} => ~layoutRefs.layoutDestroyed /\ ~layoutRefs.nativeDestroyed

\* the application has dropped its layout handle and one of two sets; the
\* baked layout lives on for the remaining set
C13_Witness ==
    /\ layout.bakeResult = "eSuccess"
    /\ layoutRefs.layoutHandles = 0
    /\ lastCall.op = "releaseBindingSet"
    /\ Len(layoutRefs.holders) = 1
    /\ layoutRefs.holders[1].kind = "BindingSet"
    /\ layoutRefs.holders[1].handles = 1
    /\ ~layoutRefs.layoutDestroyed

(***************************************************************************)
(* The capacity of a descriptor table.                                     *)
(***************************************************************************)
\* C14: every step leaves a table whose capacity is the descriptorCount of the
\* first entry of its layout's schema and is at most the layout's maxCapacity;
\* a resizeDescriptorTable step, whatever newSize and keepContents, leaves the
\* table (capacity, descriptor set) as it was and issues no native call, so
\* no written slot changes.
C14_CapacityFixed ==
    [][/\ table' # NoTable =>
            /\ table'.capacity = table'.layout.vulkanLayoutBindings[1].descriptorCount
            /\ table'.capacity <= table'.layout.bindlessDesc.maxCapacity
       /\ lastCall'.op = "resizeDescriptorTable" =>
            /\ table' = table
            /\ lastCall'.calls = <<>>]_vars

\* after a write of a typed buffer, a table of capacity 4 was resized to 9 in a
\* build without assertions: it still has capacity 4 and its descriptor set
C14_Witness ==
    /\ lastCall.op = "resizeDescriptorTable"
    /\ lastCall.ret
    /\ process.ndebug
    /\ typedBound # {}
    /\ table.capacity = 4
    /\ table.layout.bindlessDesc.maxCapacity = 4
    /\ table.descriptorSet = Handle("descriptorSet", 2)

(***************************************************************************)
(* The resources a binding set retains.                                    *)
(***************************************************************************)
\* the handles of the items with a non-null handle, in item order
NonNullHandles(bindings) ==
    LET sel == SelectSeq(bindings, LAMBDA b : b.resourceHandle # NullHandle)
    IN  [i \in 1..Len(sel) |-> sel[i].resourceHandle]

SetCreated == lastCall.op = "createBindingSet" /\ lastCall.ret.isSet

\* C15: the set createBindingSet returns retains exactly the handles of the
\* items with a non-null handle, one per item in item order; the live set
\* created by the step holds that list, and no step changes the list of a set
\* that exists before and after it.
C15_RetainedResources ==
    [][/\ SetCreated' =>
            lastCall'.ret.resources = NonNullHandles(lastCall'.args.bindings)
       /\ (SetCreated' /\ Len(layoutRefs'.holders) = Len(layoutRefs.holders) + 1) =>
            layoutRefs'.holders[Len(layoutRefs'.holders)].resources = lastCall'.ret.resources
       /\ Len(layoutRefs'.holders) >= Len(layoutRefs.holders) =>
            \A k \in 1..Len(layoutRefs.holders) :
                layoutRefs'.holders[k].resources = layoutRefs.holders[k].resources
       /\ Len(layoutRefs'.holders) < Len(layoutRefs.holders) =>
            \E k \in 1..Len(layoutRefs.holders) :
                layoutRefs'.holders = RemoveAt(layoutRefs.holders, k)]_vars

\* a description with the items sb, null, sbPerm gave a set retaining sb and
\* sbPerm, created after another set that still retains its own list
C15_Witness ==
    /\ SetCreated
    /\ Len(lastCall.args.bindings) = 3
    /\ lastCall.args.bindings[2].resourceHandle = NullHandle
    /\ lastCall.ret.resources = <<"sb", "sbPerm">>
    /\ Len(layoutRefs.holders) = 2
    /\ layoutRefs.holders[1].resources = <<"sb">>
    /\ layoutRefs.holders[2].resources = <<"sb", "sbPerm">>

(***************************************************************************)
(* writeDescriptorTable: the writes of an accepted call.                   *)
(***************************************************************************)
\* the call went past both early returns
WriteAccepted ==
    /\ TableWritten
    /\ lastCall.ret = TRUE
    /\ lastCall.args.type # "None"

\* the native descriptor-update calls of the last operation
UpdateCalls == SelectSeq(lastCall.calls, LAMBDA c : c.fn = "updateDescriptorSets")

\* the types the lambda of writeDescriptorTable resolves a descriptor for
TableWritableTypes ==
    {"Texture_SRV", "Texture_UAV", "TypedBuffer_SRV", "TypedBuffer_UAV",
     "StructuredBuffer_SRV", "StructuredBuffer_UAV", "RawBuffer_SRV", "RawBuffer_UAV",
     "ConstantBuffer", "VolatileConstantBuffer", "Sampler"}

\* the register spaces (from 0) of the table's layout that have the type
MatchingSpaces(type) ==
    {k \in 0..(Len(table.layout.bindlessDesc.registerSpaces) - 1) :
        table.layout.bindlessDesc.registerSpaces[k + 1].type = type}

IsImmutable == table.layout.bindlessDesc.layoutType = "Immutable"

\* C18 as claimed: an accepted write resolves exactly one descriptor write and
\* issues exactly one native update call carrying that single write.
C18_OneWritePerCall ==
    WriteAccepted =>
        /\ Len(UpdateCalls) = 1
        /\ Len(UpdateCalls[1].writes) = 1

\* C18: an accepted write issues exactly one native update call, the last
\* native call of the operation; it carries one write for a mutable layout
\* and one write per register space of the binding's type for an Immutable
\* layout (none when no space has the type), and no write at all for a
\* RayTracingAccelStruct or PushConstants binding.
C18_WritePerMatchingSpace ==
    WriteAccepted =>
        /\ Len(UpdateCalls) = 1
        /\ lastCall.calls[Len(lastCall.calls)] = UpdateCalls[1]
        /\ Len(UpdateCalls[1].writes) =
               IF lastCall.args.type \notin TableWritableTypes THEN 0
               ELSE IF IsImmutable THEN Cardinality(MatchingSpaces(lastCall.args.type))
               ELSE 1

\* a typed buffer written to the Immutable layout with two TypedBuffer_SRV
\* register spaces: one update call with two writes
C18_Witness ==
    /\ WriteAccepted
    /\ IsImmutable
    /\ lastCall.args.type = "TypedBuffer_SRV"
    /\ MatchingSpaces("TypedBuffer_SRV") = {0, 1}
    /\ Len(UpdateCalls) = 1
    /\ Len(UpdateCalls[1].writes) = 2

(***************************************************************************)
(* writeDescriptorTable: where a write lands.                              *)
(***************************************************************************)
\* the binding locations the writes of the update call target
WrittenLocations ==
    {UpdateCalls[1].writes[w].dstBinding : w \in 1..Len(UpdateCalls[1].writes)}

\* C19: every descriptor write of writeDescriptorTable targets array element
\* binding.slot; its binding location is 0 for a mutable layout and, for an
\* Immutable layout, the index of a register space whose type is the
\* binding's type: every such space is written and no other.
C19_WriteTarget ==
    WriteAccepted =>
        /\ \A w \in 1..Len(UpdateCalls[1].writes) :
             /\ UpdateCalls[1].writes[w].dstArrayElement = lastCall.args.slot
             /\ ~IsImmutable => UpdateCalls[1].writes[w].dstBinding = 0
             /\ IsImmutable =>
                    UpdateCalls[1].writes[w].dstBinding \in MatchingSpaces(lastCall.args.type)
        /\ (IsImmutable /\ lastCall.args.type \in TableWritableTypes) =>
               WrittenLocations = MatchingSpaces(lastCall.args.type)

\* a sampler written at slot 3 of the Immutable layout [TypedBuffer_SRV,
\* Sampler]: the write targets binding 1, array element 3
C19_Witness ==
    /\ WriteAccepted
    /\ IsImmutable
    /\ lastCall.args.type = "Sampler"
    /\ lastCall.args.slot = 3
    /\ MatchingSpaces("Sampler") = {1}
    /\ Len(UpdateCalls[1].writes) = 1
    /\ UpdateCalls[1].writes[1].dstBinding = 1
    /\ UpdateCalls[1].writes[1].dstArrayElement = 3

(***************************************************************************)
(* The two descriptor paths on the same item.                              *)
(***************************************************************************)
\* what createBindingSet resolves for the item of the last table write, with
\* the view caches as that write left them
SetPathOfLastWrite ==
    createBindingSetItem(NewSetAcc(viewCache), DefaultDesc, lastCall.args, 1)

\* what the lambda of writeDescriptorTable resolves for it at the first entry
TablePathOfLastWrite ==
    writeDescriptorForBinding(NewTableAcc(viewCache), table.layout.vulkanLayoutBindings[1],
                              lastCall.args)

\* C20 as claimed: for the item of an accepted table write with a non-null
\* resource, createBindingSet accepts the type exactly when writeDescriptorTable
\* does, and every descriptor the table write passed has the native type, the
\* resource, the resolved range, the view (found under the same cache key) and
\* the image layout that createBindingSet resolves for the same item.
C20_SameDescriptor ==
    (WriteAccepted /\ lastCall.args.resourceHandle # NullHandle) =>
        /\ Len(SetPathOfLastWrite.writes) = Len(TablePathOfLastWrite.writes)
        /\ \A w \in 1..Len(UpdateCalls[1].writes) :
             /\ Len(SetPathOfLastWrite.writes) = 1
             /\ UpdateCalls[1].writes[w].descriptorType = SetPathOfLastWrite.writes[1].descriptorType
             /\ UpdateCalls[1].writes[w].kind = SetPathOfLastWrite.writes[1].kind
             /\ UpdateCalls[1].writes[w].resource = SetPathOfLastWrite.writes[1].resource
             /\ UpdateCalls[1].writes[w].range = SetPathOfLastWrite.writes[1].range
             /\ UpdateCalls[1].writes[w].view = SetPathOfLastWrite.writes[1].view
             /\ UpdateCalls[1].writes[w].imageLayout = SetPathOfLastWrite.writes[1].imageLayout

(***************************************************************************)
(* createBindingSet: the transition list and the descriptor writes.        *)
(***************************************************************************)
\* Texture::permanentState / Buffer::permanentState of the resource of an item
PermanentStateOf(b) ==
    IF b.type \in {"Texture_SRV", "Texture_UAV"} THEN Texture(b.resourceHandle).permanentState
    ELSE Buffer(b.resourceHandle).permanentState

\* the items of the claim: a texture or non-volatile buffer binding without a
\* permanent state, or an acceleration structure
NeedsTransition(b) ==
    /\ b.resourceHandle # NullHandle
    /\ \/ b.type = "RayTracingAccelStruct"
       \/ /\ b.type \in {"Texture_SRV", "Texture_UAV", "TypedBuffer_SRV", "TypedBuffer_UAV",
                          "StructuredBuffer_SRV", "StructuredBuffer_UAV", "RawBuffer_SRV",
                          "RawBuffer_UAV", "ConstantBuffer"}
          /\ PermanentStateOf(b) = NoPermanentState

\* C21: the transition list of the set createBindingSet returns is the
\* increasing list of the indices (from 0) of the items with a non-null
\* resource that are an acceleration structure, or a texture or non-volatile
\* buffer binding whose resource has no permanent state; the buffers of the
\* non-null VolatileConstantBuffer items are in the volatile-buffer list, in
\* item order, and their indices are not in the transition list.
C21_TransitionList ==
    SetCreated =>
        LET bindings == lastCall.args.bindings
            list == lastCall.ret.bindingsThatNeedTransitions
        IN  /\ {list[k] : k \in 1..Len(list)} =
                   {i \in 0..(Len(bindings) - 1) : NeedsTransition(bindings[i + 1])}
            /\ \A k \in 1..(Len(list) - 1) : list[k] < list[k + 1]
            /\ lastCall.ret.volatileConstantBuffers = DescVolatile(lastCall.args, FALSE)

\* [texPerm, tex]: only index 1 needs a transition
C21_Witness ==
    /\ SetCreated
    /\ Len(lastCall.args.bindings) = 2
    /\ lastCall.args.bindings[1].resourceHandle = "texPerm"
    /\ lastCall.args.bindings[2].resourceHandle = "tex"
    /\ lastCall.ret.bindingsThatNeedTransitions = <<1>>

(***************************************************************************)
(* createPipelineLayout in direct mode.                                    *)
(***************************************************************************)
\* C22: the mode depends on registerSpaceIsDescriptorSet of the first
\* non-bindless input layout only.  When it is false, or when no input layout
\* is non-bindless, the output layouts are the input layouts in input order
\* (a bindless layout stays where it was), no position is a hole, the native
\* slots are the layouts' own descriptor-set layouts and the index map is
\* empty; when it is true the index map has one entry per output position.
C22_DirectLayout ==
    PipelineCreated =>
        LET in == pipeline.inBindingLayouts
            map == pipeline.outDescriptorSetIdxToBindingIdx
            out == pipeline.outBindingLayouts
            native == pipeline.descriptorSetLayouts
        IN  IF IndexedMode
            THEN Len(map) = Len(out) /\ Len(map) >= 1
            ELSE /\ out = in
                 /\ map = <<>>
                 /\ \A p \in 1..Len(out) : out[p] # NoLayout
                 /\ native = [p \in 1..Len(in) |-> in[p].descriptorSetLayout]

\* {bindless, fixed without the flag in registerSpace 2, fixed with the flag}:
\* direct mode although a later layout carries the flag
C22_Witness ==
    /\ PipelineCreated
    /\ ~IndexedMode
    /\ Len(pipeline.inBindingLayouts) = 3
    /\ pipeline.inBindingLayouts[1].isBindless
    /\ NonBindlessInputs = {2, 3}
    /\ ~pipeline.inBindingLayouts[2].desc.registerSpaceIsDescriptorSet
    /\ RegisterSpaceOf(2) = 2
    /\ pipeline.inBindingLayouts[3].desc.registerSpaceIsDescriptorSet
    /\ pipeline.outBindingLayouts = pipeline.inBindingLayouts
    /\ pipeline.outDescriptorSetIdxToBindingIdx = <<>>

(***************************************************************************)
(* Bindless layouts: what the constructor reports.                         *)
(***************************************************************************)
BindlessLayoutCreated == lastCall.op = "createBindlessLayout"

\* the messages handed to m_Context.error by the last create call
Reported == {errors[k] : k \in 1..Len(errors)}

\* C23: creating a bindless layout reports a fault in exactly three cases: an
\* Immutable layout with a VolatileConstantBuffer register space, a mutable
\* layout with a non-empty register-space list, and a mutable layout on a
\* device without mutable-descriptor-type support; each case has its own
\* message and nothing else is reported, whatever the native call returns.
C23_ConfigurationFaults ==
    BindlessLayoutCreated =>
        LET bdesc == layout.bindlessDesc
            spaces == bdesc.registerSpaces
            immutable == bdesc.layoutType = "Immutable"
        IN  /\ "VolatileInBindless" \in Reported <=>
                   (immutable /\ \E k \in 1..Len(spaces) :
                                    spaces[k].type = "VolatileConstantBuffer")
            /\ "MutableWithRegisterSpaces" \in Reported <=> (~immutable /\ Len(spaces) > 0)
            /\ "MutableNotSupported" \in Reported <=>
                   (~immutable /\ ~lastCall.args.mutableDescriptorType)
            /\ Reported \subseteq
                   {"VolatileInBindless", "MutableWithRegisterSpaces", "MutableNotSupported"}

\* an Immutable layout with a volatile register space on a device without the
\* extension: the register space is reported, the missing extension is not
C23_Witness ==
    /\ BindlessLayoutCreated
    /\ layout.bindlessDesc.layoutType = "Immutable"
    /\ ~lastCall.args.mutableDescriptorType
    /\ Len(layout.bindlessDesc.registerSpaces) = 2
    /\ layout.bindlessDesc.registerSpaces[2].type = "VolatileConstantBuffer"
    /\ errors = <<"VolatileInBindless">>
    /\ layout.bakeResult = "eSuccess"

\* the positions (from 1) of the items createBindingSet writes a descriptor for
WrittenItems(bindings) ==
    {i \in 1..Len(bindings) :
        bindings[i].resourceHandle # NullHandle /\ bindings[i].type # "PushConstants"}

\* the rank of position i among the written positions
WriteRank(bindings, i) == Cardinality({j \in WrittenItems(bindings) : j <= i})

\* the schema entry of the layout item at position i (PushConstants items have none)
SchemaEntryOf(i) ==
    layout.vulkanLayoutBindings[Len(NonPushItems(SubSeq(layout.desc.bindings, 1, i)))]

\* C24: a createBindingSet that returns a set issues exactly one
\* updateDescriptorSets call, as its last native call; the call holds one
\* write per item with a non-null resource and a type other than
\* PushConstants, in item order, and no other write; the write of an item
\* targets binding baseOffsetFor(type) + slot under the layout's binding
\* offsets, which is the binding of the schema entry of the layout item of
\* that position, with the native type of the item's type, and array element
\* = the item's arrayElement.
C24_OneWritePerItem ==
    (SetCreated /\ FixedLayoutBuilt) =>
        LET bindings == lastCall.args.bindings
            calls == lastCall.calls
        IN  /\ Len(UpdateCalls) = 1
            /\ calls[Len(calls)].fn = "updateDescriptorSets"
            /\ Len(UpdateCalls[1].writes) = Cardinality(WrittenItems(bindings))
            /\ \A i \in WrittenItems(bindings) :
                 LET write == UpdateCalls[1].writes[WriteRank(bindings, i)]
                 IN  /\ write.dstBinding =
                            baseOffsetFor(layout.desc.bindingOffsets, bindings[i].type)
                            + bindings[i].slot
                     /\ write.dstBinding = SchemaEntryOf(i).binding
                     /\ write.descriptorType = SchemaEntryOf(i).descriptorType
                     /\ write.descriptorType = convertResourceType(bindings[i].type)
                     /\ write.dstArrayElement = bindings[i].arrayElement
                     /\ write.resource = bindings[i].resourceHandle

\* [PushConstants with a resource, Texture_SRV texPerm at slot 2, element 1]
\* against a layout with the custom offsets: one write, at binding 12, element 1
C24_Witness ==
    /\ SetCreated
    /\ FixedLayoutBuilt
    /\ layout.desc.bindingOffsets = CustomBindingOffsets
    /\ Len(lastCall.args.bindings) = 2
    /\ lastCall.args.bindings[1].type = "PushConstants"
    /\ lastCall.args.bindings[1].resourceHandle = "sb"
    /\ lastCall.args.bindings[2].resourceHandle = "texPerm"
    /\ Len(UpdateCalls) = 1
    /\ Len(UpdateCalls[1].writes) = 1
    /\ UpdateCalls[1].writes[1].dstBinding = 12
    /\ UpdateCalls[1].writes[1].dstArrayElement = 1

=============================================================================
